---- MODULE Spec2Model ----
(***************************************************************************)
(* Model of the multi-source price resolution, screener and cache logic of *)
(* the backend (src/backend/live_data.py, live_stock_screener.py,          *)
(* stock_screener.py).                                                     *)
(*                                                                         *)
(* Units.  Money is counted in mills (1/1000 rupee), percentages in 1/100  *)
(* of a percent, ratios (PCR, risk:reward) in 1/100 resp. 1/10, wall-clock *)
(* time in seconds.  The input values are chosen so that every product and *)
(* quotient the code forms on them is exact in these units.                *)
(***************************************************************************)
EXTENDS Integers, Sequences, FiniteSets, TLC

VARIABLES
    \* ---- get_live_dashboard_data (live_data.py) ----
    dash_pc,        \* position of the request inside the handler
    dash_symbol,    \* its argument
    dash_t,         \* current_price, price_change, price_change_pct
    dash_in,        \* what each source adapter returned to this request
    dash_calls,     \* the source adapters this request invoked, in order
    dash_ret,       \* the snapshot returned (status "none" until then)
    \* ---- the wall clock
    now,            \* datetime.now(), seconds of local time
    ticks,          \* how often the clock has been advanced
    \* ---- LiveStockScreener (the singleton live_screener) and live_data globals
    _cache,                 \* self._cache: the processed entries
    _last_refresh,          \* self._last_refresh (Never for None)
    _last_close_cache,      \* live_data._last_close_cache (<<>> for None)
    _last_close_cache_date, \* live_data._last_close_cache_date (Never for None)
    lc_log,                 \* the latest fetch_last_close_data call: what it
                            \* returned, whether it went upstream, call count
    \* ---- one get_screener_data request
    scr_pc,           \* position of the handler
    filter_type,      \* its argument
    all_stocks,       \* the local all_stocks
    data_source,      \* the local data_source
    filtered_stocks,  \* the local filtered_stocks, as indices into all_stocks
    scr_i,            \* position of the refresh loop in filtered_stocks
    updated,          \* updated_mc and updated_gf
    scr_ret,          \* the response (valid = FALSE until returned)
    scr_log,          \* the tier that produced all_stocks, the tiers that gave
                      \* no entry before it, the number of bulk fetches, the
                      \* age of the cache when it was served
    scr_prev,         \* time, bulk fetches and entries of the previous call
    \* ---- one get_stock_details request
    det_pc,           \* position of the handler
    det_symbol,       \* its argument
    det_k,            \* index of the symbol in self._cache, 0 if absent
    det_in,           \* what each source adapter returned to this request
    det_calls,        \* the network sources this request invoked, in order
    det_ret,          \* the entry returned (NoEntry for None), returned flag
    \* ---- the NSE session (live_data.session) and fetch_option_chain
    nse_session,      \* why the exchange home page was fetched so far
    oc_log,           \* the latest fetch_option_chain call: the answers it
                      \* consumed, its requests in order, what it returned
    \* ---- two requests running in the thread pool
    thr_scr,          \* the get_screener_data request in its refresh loop:
                      \* position, entry, quote held, next assignment
    thr_det,          \* the get_stock_details request on its cached path
    thr_base,         \* the cache as the two requests found it
    thr_ret,          \* the entry get_stock_details returned
    \* ---- the parallel round of fetch_last_close_data
    batch_pc,         \* position of the calling thread
    futures,          \* per symbol: state of its future and what its
                      \* nse.stock_quote call does
    stocks_data,      \* the local stocks_data
    \* ---- the price push: ConnectionManager, price_broadcaster and the
    \* websocket_prices handlers
    active_connections, \* manager.active_connections
    pb_pc,            \* position of price_broadcaster
    pb_last,          \* how its latest tick ended
    bc_i,             \* broadcast: position of the list iterator
    bc_conn,          \* broadcast: the loop variable connection
    bc_disconnected,  \* broadcast: the local disconnected
    bc_log,           \* the latest broadcast: who was registered throughout,
                      \* whom it sent to, whose send failed
    ws_pc,            \* per client: position of its websocket_prices handler
    ws_msg,           \* per client: the symbols priced in its latest message
    \* ---- MarketDataProvider (the singleton data_provider) and algorithms
    _scenario,        \* self._scenario
    _price_offset,    \* self._price_offset, in 1/100 rupee (0 when absent)
    moves,            \* how often _generate_price_movement has run
    alg_ret,          \* the latest call: function, arguments, result
    \* ---- the signal functions of live_data.py called on their own ----
    sig_ret           \* the latest call: function, arguments, result

dash_vars == <<dash_pc, dash_symbol, dash_t, dash_in, dash_calls, dash_ret>>

clock_vars == <<now, ticks>>

store_vars == <<_cache, _last_refresh>>

lc_vars == <<_last_close_cache, _last_close_cache_date, lc_log>>

scr_vars == <<scr_pc, filter_type, all_stocks, data_source, filtered_stocks,
              scr_i, updated, scr_ret, scr_log, scr_prev>>

det_vars == <<det_pc, det_symbol, det_k, det_in, det_calls, det_ret>>

net_vars == <<nse_session, oc_log>>

thr_vars == <<thr_scr, thr_det, thr_base, thr_ret>>

pool_vars == <<batch_pc, futures, stocks_data>>

ws_vars == <<active_connections, pb_pc, pb_last, bc_i, bc_conn,
            bc_disconnected, bc_log, ws_pc, ws_msg>>

alg_vars == <<_scenario, _price_offset, moves, alg_ret>>

sig_vars == <<sig_ret>>

aux_vars == <<pool_vars, ws_vars, alg_vars, sig_vars>>

ext_vars == <<thr_vars, aux_vars>>

vars == <<dash_vars, clock_vars, store_vars, lc_vars, scr_vars, det_vars,
          net_vars, ext_vars>>

-----------------------------------------------------------------------------
(* Generic helpers *)

\* n/d rounded to the nearest integer (d > 0), halves away from zero; on the
\* values used here the quotient is exact or not a tie, as Python's round().
RoundDiv(n, d) ==
    LET a == IF n >= 0 THEN n ELSE -n
        q == (a \div d) + (IF 2 * (a % d) >= d THEN 1 ELSE 0)
    IN  IF n >= 0 THEN q ELSE -q

\* A quote as the adapters hand it on; ok = FALSE stands for Python's None.
Quote(p, c, cp) == [ok |-> TRUE, price |-> p, change |-> c, change_pct |-> cp]

NoQuote == [ok |-> FALSE, price |-> 0, change |-> 0, change_pct |-> 0]

-----------------------------------------------------------------------------
(* Index price sources *)

IndexSymbols == {"NIFTY", "BANKNIFTY"}

\* MC_INDEX_IDS: the symbols Moneycontrol's price API covers.
MC_INDEX_IDS == {"NIFTY", "NIFTY50", "NIFTY 50"}

\* What the Moneycontrol endpoint can answer: a transport error or non-200
\* status, a body whose code is not '200' or whose data is empty, or a data
\* object in which any key may be missing (has_* = FALSE).
McResponses ==
    { [kind |-> "error", has_price |-> FALSE, pricecurrent |-> 0,
       pricechange |-> 0, pricepercentchange |-> 0],
      [kind |-> "badcode", has_price |-> FALSE, pricecurrent |-> 0,
       pricechange |-> 0, pricepercentchange |-> 0],
      [kind |-> "data", has_price |-> TRUE, pricecurrent |-> 100000,
       pricechange |-> 1000, pricepercentchange |-> 100],
      [kind |-> "data", has_price |-> TRUE, pricecurrent |-> 0,
       pricechange |-> 0, pricepercentchange |-> 0],
      [kind |-> "data", has_price |-> FALSE, pricecurrent |-> 0,
       pricechange |-> -12500, pricepercentchange |-> -5] }

\* fetch_moneycontrol_index: None without a request when the symbol has no id,
\* None on error / non-200 / bad body, else the parsed fields (a missing
\* 'pricecurrent' reads as 0).
fetch_moneycontrol_index(symbol, resp) ==
    IF symbol \notin MC_INDEX_IDS THEN NoQuote
    ELSE IF resp.kind # "data" THEN NoQuote
    ELSE Quote(IF resp.has_price THEN resp.pricecurrent ELSE 0,
               resp.pricechange, resp.pricepercentchange)

\* What the Google Finance page can answer: error / non-200, a page without
\* either price pattern, or a page with a price and possibly a percentage.
GfResponses ==
    { [kind |-> "error", price |-> 0, has_pct |-> FALSE, pct |-> 0],
      [kind |-> "noprice", price |-> 0, has_pct |-> FALSE, pct |-> 0],
      [kind |-> "page", price |-> 142500, has_pct |-> TRUE, pct |-> -200],
      [kind |-> "page", price |-> 142500, has_pct |-> FALSE, pct |-> 0],
      [kind |-> "page", price |-> 0, has_pct |-> TRUE, pct |-> 200] }

\* fetch_google_finance_data: the price is mandatory; the change is derived
\* from the scraped percentage, both 0 when the percentage is not found.
fetch_google_finance_data(resp) ==
    IF resp.kind # "page" THEN NoQuote
    ELSE IF resp.has_pct
         THEN Quote(resp.price, (resp.price * resp.pct) \div 10000, resp.pct)
         ELSE Quote(resp.price, 0, 0)

\* What yfinance can do inside the try block of step 3: raise before a price
\* is read (import, Ticker, history), return an empty frame, or return a
\* frame; then ticker.info may raise, lack 'previousClose' (prev = -1), or
\* carry it (possibly 0).
YfResponses ==
    { [hist |-> "raise", close |-> 0, open |-> 0, info |-> "raise", prev |-> -1],
      [hist |-> "empty", close |-> 0, open |-> 0, info |-> "raise", prev |-> -1],
      [hist |-> "ok", close |-> 999000, open |-> 1110000, info |-> "ok", prev |-> 900000],
      [hist |-> "ok", close |-> 999000, open |-> 1110000, info |-> "ok", prev |-> -1],
      [hist |-> "ok", close |-> 999000, open |-> 0, info |-> "ok", prev |-> 0],
      [hist |-> "ok", close |-> 999000, open |-> 1110000, info |-> "raise", prev |-> -1],
      [hist |-> "ok", close |-> 0, open |-> 100000, info |-> "ok", prev |-> 100000] }

\* What the NSE library can answer: an exception or empty quote, or a quote in
\* which 'lastPrice' may be missing.
NseResponses ==
    { [kind |-> "error", lastPrice |-> 0, change |-> 0, pChange |-> 0],
      [kind |-> "quote", lastPrice |-> 250000, change |-> -2500, pChange |-> -100],
      [kind |-> "quote", lastPrice |-> 0, change |-> 0, pChange |-> 0] }


\* What fetch_option_chain can hand to fetch_technical_signals: None, a chain
\* whose shape makes the .get chain raise, or a chain with the filtered OI
\* totals and the underlying value.
OcResults ==
    { [kind |-> "none", ce |-> 0, pe |-> 0, underlying |-> 0],
      [kind |-> "malformed", ce |-> 0, pe |-> 0, underlying |-> 0],
      [kind |-> "chain", ce |-> 100, pe |-> 130, underlying |-> 100000],
      [kind |-> "chain", ce |-> 100, pe |-> 70, underlying |-> 100000],
      [kind |-> "chain", ce |-> 0, pe |-> 70, underlying |-> 0] }

-----------------------------------------------------------------------------
(* The NSE session of live_data.py and fetch_option_chain *)

\* Why the exchange home page was fetched: by _init_session at import
\* (line 43), by get_nse_session at the start of a handler
\* (live_stock_screener.py lines 219 and 411), or by get_nse_session after a
\* non-200 response (line 277).
RefreshCauses == {"import", "call", "failure"}

\* What the GET of the home page can do.
HomeOutcomes == {"ok", "raise"}

\* get_nse_session: True, or False when the GET raised; never an exception.
get_nse_session(outcome) == outcome = "ok"

OcSymbols == IndexSymbols \cup {"RELIANCE", "NYKAA"}

\* Lines 266-269: the endpoint asked for a symbol.
OcUrl(symbol) ==
    IF symbol \in {"NIFTY", "BANKNIFTY", "FINNIFTY", "MIDCPNIFTY"}
    THEN "option-chain-indices"
    ELSE "option-chain-equities"

\* Python's None for an option chain.
OcNone == [kind |-> "none", ce |-> 0, pe |-> 0, underlying |-> 0]

\* One answer of session.get(url): the call raises, the status is not 200,
\* the status is 200 and response.json() raises ("badbody"), or the status
\* is 200 with a JSON payload.
Http(kind, payload) == [kind |-> kind, payload |-> payload]

NoHttp == Http("unused", OcNone)

OcHttpResponses ==
    { Http("raise", OcNone), Http("non200", OcNone), Http("badbody", OcNone) }
    \cup { Http("ok", p) : p \in OcResults \ {OcNone} }

\* No response is retried.
NeverRetry(response) ==
    FALSE

\* Lines 273-277: a response with another status than 200 is retried.
ShouldRetry(response) ==
    response.kind = "non200"

\* One session.get(url) and what lines 273-274 / 279-283 make of it.
OcAnswer(response) ==
    [ret |-> IF response.kind = "ok" THEN response.payload ELSE OcNone,
     exc |-> response.kind \in {"raise", "badbody"}]

\* Lines 265-283, the body of the try block: the requests made in order
\* ("home" for the GET of get_nse_session), the value returned, and whether
\* an exception left the body.
OcBody(symbol, first, home, second) ==
    IF ShouldRetry(first)
    THEN LET refreshed == get_nse_session(home)
         IN  [calls |-> <<OcUrl(symbol), "home", OcUrl(symbol)>>,
              refreshed |-> refreshed,
              ret |-> OcAnswer(second).ret, exc |-> OcAnswer(second).exc]
    ELSE [calls |-> <<OcUrl(symbol)>>, refreshed |-> FALSE,
          ret |-> OcAnswer(first).ret, exc |-> OcAnswer(first).exc]

\* fetch_option_chain: the except clause of lines 284-286 turns every
\* exception of the body into None.
fetch_option_chain(symbol, first, home, second) ==
    LET body == OcBody(symbol, first, home, second)
    IN  IF body.exc THEN [body EXCEPT !.ret = OcNone, !.exc = FALSE] ELSE body

\* The session after a fetch_option_chain call.
SessionAfter(session, result) ==
    IF \E i \in 1..Len(result.calls) : result.calls[i] = "home"
    THEN session \cup {"failure"}
    ELSE session

NoOcLog ==
    [symbol |-> "", first |-> NoHttp, home |-> "unused", second |-> NoHttp,
     calls |-> <<>>, ret |-> OcNone, exc |-> FALSE, returned |-> FALSE]

-----------------------------------------------------------------------------
(* get_live_dashboard_data: price resolution *)

\* The running (current_price, price_change, price_change_pct) triple.
Triple(p, c, cp) == [price |-> p, change |-> c, change_pct |-> cp]

\* Step 1 (Moneycontrol): any non-None answer is copied, whatever its price.
McStep(t, mc_data) ==
    IF mc_data.ok THEN Triple(mc_data.price, mc_data.change, mc_data.change_pct)
    ELSE t

\* Step 2 (Google Finance), entered only when current_price == 0.
GfStep(t, gf_data) ==
    IF t.price = 0 /\ gf_data.ok
    THEN Triple(gf_data.price, gf_data.change, gf_data.change_pct)
    ELSE t

\* Step 3 (Yahoo Finance), entered only when current_price == 0.  The three
\* variables are assigned one by one inside one try block, so an exception
\* keeps the assignments made before it.
YfBody(t, yf) ==
    IF yf.hist # "ok" THEN t
    ELSE IF yf.info = "raise" THEN Triple(yf.close, t.change, t.change_pct)
    ELSE LET prev_close == IF yf.prev = -1 THEN yf.close ELSE yf.prev
         IN  IF prev_close # 0 /\ prev_close # yf.close
             THEN Triple(yf.close, yf.close - prev_close,
                         ((yf.close - prev_close) * 10000) \div prev_close)
             ELSE IF yf.open = 0
                  THEN Triple(yf.close, yf.close - yf.open, t.change_pct)
                  ELSE Triple(yf.close, yf.close - yf.open,
                              ((yf.close - yf.open) * 10000) \div yf.open)

YfStep(t, yf) == IF t.price = 0 THEN YfBody(t, yf) ELSE t

\* Step 4 (NSE library), entered only when current_price == 0.
NseStep(t, nse) ==
    IF t.price = 0 /\ nse.kind = "quote"
    THEN Triple(nse.lastPrice, nse.change, nse.pChange)
    ELSE t

-----------------------------------------------------------------------------
(* fetch_technical_signals and the synthetic fallback *)

Signals(v, p, s, verdict, rec) ==
    [vwap |-> v, pcr |-> p, sentiment_score |-> s, verdict |-> verdict,
     recommendation |-> rec]

fetch_technical_signals(oc) ==
    IF oc.kind = "malformed"
    THEN Signals(0, 100, 5, "NEUTRAL", "Data Unavailable")
    ELSE LET pcr_value == IF oc.kind = "chain" /\ oc.ce > 0
                          THEN RoundDiv(oc.pe * 100, oc.ce) ELSE 100
             current_price == IF oc.kind = "chain" THEN oc.underlying ELSE 0
             vwap_value == IF pcr_value > 100
                           THEN RoundDiv(current_price * 998, 1000)
                           ELSE RoundDiv(current_price * 1002, 1000)
         IN  IF pcr_value > 120
             THEN Signals(vwap_value, pcr_value, 8, "STRONG BUY",
                          "Look for Buying Opportunities")
             ELSE IF pcr_value < 80
             THEN Signals(vwap_value, pcr_value, 3, "STRONG SELL",
                          "Look for Selling Opportunities")
             ELSE Signals(vwap_value, pcr_value, 5, "NEUTRAL",
                          "Wait for clear direction")

\* Step 4 without line 992: the synthetic score under the verdict the
\* signals had.
FallbackKeepsVerdict(t, signals) ==
    IF t.price > 0 /\ signals.vwap = 0
    THEN LET is_bullish == t.change >= 0
         IN  Signals(IF is_bullish THEN (t.price * 998) \div 1000
                                   ELSE (t.price * 1002) \div 1000,
                     signals.pcr,
                     IF is_bullish THEN 7 ELSE 3,
                     signals.verdict,
                     "Trend Following")
    ELSE signals

\* Step 4 of the handler: synthetic VWAP signal from the price trend.
FallbackSignals(t, signals) ==
    IF t.price > 0 /\ signals.vwap = 0
    THEN LET is_bullish == t.change >= 0
         IN  Signals(IF is_bullish THEN (t.price * 998) \div 1000
                                   ELSE (t.price * 1002) \div 1000,
                     signals.pcr,
                     IF is_bullish THEN 7 ELSE 3,
                     IF is_bullish THEN "STRONG BUY" ELSE "STRONG SELL",
                     "Trend Following")
    ELSE signals

\* The response of get_live_dashboard_data (the fields of "data").
DashResponse(symbol, t, signals) ==
    [status |-> "success",
     symbol |-> symbol,
     price |-> t.price,
     price_change |-> t.change,
     price_change_pct |-> t.change_pct,
     vwap_value |-> signals.vwap,
     is_bullish |-> signals.vwap < t.price,
     pcr |-> signals.pcr,
     score |-> signals.sentiment_score,
     label |-> signals.verdict,
     oi_message |-> signals.recommendation]

NoResponse ==
    [status |-> "none", symbol |-> "", price |-> 0, price_change |-> 0,
     price_change_pct |-> 0, vwap_value |-> 0, is_bullish |-> FALSE,
     pcr |-> 0, score |-> 0, label |-> "", oi_message |-> ""]

\* What Yahoo's answer alone delivers (the try block run on fresh variables).
YfQuote(yf) ==
    IF yf.hist # "ok" THEN NoQuote
    ELSE LET t == YfBody(Triple(0, 0, 0), yf)
         IN  Quote(t.price, t.change, t.change_pct)

NseQuote(nse) ==
    IF nse.kind # "quote" THEN NoQuote
    ELSE Quote(nse.lastPrice, nse.change, nse.pChange)

Sources == <<"moneycontrol", "google_finance", "yahoo_finance", "nse">>

NoDashIn == [s \in {Sources[i] : i \in 1..4} |-> NoQuote]

\* A request arrives: the locals of lines 913-916.
DashStart ==
    /\ dash_pc \in {"idle", "done"}
    /\ \E symbol \in IndexSymbols : dash_symbol' = symbol
    /\ dash_pc' = "moneycontrol"
    /\ dash_t' = Triple(0, 0, 0)
    /\ dash_in' = NoDashIn
    /\ dash_calls' = <<>>
    /\ dash_ret' = NoResponse
    /\ UNCHANGED <<clock_vars, store_vars, lc_vars, scr_vars,
                   det_vars, net_vars, ext_vars>>

\* 1. Primary: Moneycontrol.
DashMoneycontrol ==
    /\ dash_pc = "moneycontrol"
    /\ \E resp \in McResponses :
         LET mc_data == fetch_moneycontrol_index(dash_symbol, resp)
         IN  /\ dash_t' = McStep(dash_t, mc_data)
             /\ dash_in' = [dash_in EXCEPT !["moneycontrol"] = mc_data]
    /\ dash_calls' = Append(dash_calls, "moneycontrol")
    /\ dash_pc' = "google_finance"
    /\ UNCHANGED <<dash_symbol, dash_ret>>
    /\ UNCHANGED <<clock_vars, store_vars, lc_vars, scr_vars,
                   det_vars, net_vars, ext_vars>>

\* 2. Secondary: Google Finance, only if current_price == 0.
DashGoogle ==
    /\ dash_pc = "google_finance"
    /\ IF dash_t.price = 0
       THEN /\ \E resp \in GfResponses :
                 LET gf_data == fetch_google_finance_data(resp)
                 IN  /\ dash_t' = GfStep(dash_t, gf_data)
                     /\ dash_in' = [dash_in EXCEPT !["google_finance"] = gf_data]
            /\ dash_calls' = Append(dash_calls, "google_finance")
       ELSE UNCHANGED <<dash_t, dash_in, dash_calls>>
    /\ dash_pc' = "yahoo_finance"
    /\ UNCHANGED <<dash_symbol, dash_ret>>
    /\ UNCHANGED <<clock_vars, store_vars, lc_vars, scr_vars,
                   det_vars, net_vars, ext_vars>>

\* 3. Tertiary: Yahoo Finance, only if current_price == 0.
DashYahoo ==
    /\ dash_pc = "yahoo_finance"
    /\ IF dash_t.price = 0
       THEN /\ \E yf \in YfResponses :
                 /\ dash_t' = YfStep(dash_t, yf)
                 /\ dash_in' = [dash_in EXCEPT !["yahoo_finance"] = YfQuote(yf)]
            /\ dash_calls' = Append(dash_calls, "yahoo_finance")
       ELSE UNCHANGED <<dash_t, dash_in, dash_calls>>
    /\ dash_pc' = "nse"
    /\ UNCHANGED <<dash_symbol, dash_ret>>
    /\ UNCHANGED <<clock_vars, store_vars, lc_vars, scr_vars,
                   det_vars, net_vars, ext_vars>>

\* 3b. NSE library, only if current_price == 0.
DashNse ==
    /\ dash_pc = "nse"
    /\ IF dash_t.price = 0
       THEN /\ \E nse \in NseResponses :
                 /\ dash_t' = NseStep(dash_t, nse)
                 /\ dash_in' = [dash_in EXCEPT !["nse"] = NseQuote(nse)]
            /\ dash_calls' = Append(dash_calls, "nse")
       ELSE UNCHANGED <<dash_t, dash_in, dash_calls>>
    /\ dash_pc' = "signals"
    /\ UNCHANGED <<dash_symbol, dash_ret>>
    /\ UNCHANGED <<clock_vars, store_vars, lc_vars, scr_vars,
                   det_vars, net_vars, ext_vars>>

\* Signals, synthetic fallback, and the response.
DashRespond ==
    /\ dash_pc = "signals"
    /\ \E first \in OcHttpResponses, home \in HomeOutcomes,
          second \in OcHttpResponses :
         LET result == fetch_option_chain(dash_symbol, first, home, second)
         IN  /\ dash_ret' = DashResponse(dash_symbol, dash_t,
                                         FallbackSignals(dash_t,
                                             fetch_technical_signals(result.ret)))
             /\ nse_session' = SessionAfter(nse_session, result)
    /\ dash_pc' = "done"
    /\ UNCHANGED <<dash_symbol, dash_t, dash_in, dash_calls, oc_log>>
    /\ UNCHANGED <<clock_vars, store_vars, lc_vars, scr_vars,
                   det_vars, ext_vars>>

DashInit ==
    /\ dash_pc = "idle"
    /\ dash_symbol = ""
    /\ dash_t = Triple(0, 0, 0)
    /\ dash_in = NoDashIn
    /\ dash_calls = <<>>
    /\ dash_ret = NoResponse

DashNext ==
    \/ DashStart
    \/ DashMoneycontrol
    \/ DashGoogle
    \/ DashYahoo
    \/ DashNse
    \/ DashRespond

-----------------------------------------------------------------------------
(* Signal derivation of the screener: generate_mock_indicators,            *)
(* calculate_fibonacci_levels, LiveStockScreener._process_stock            *)

\* round(n/d, 2) of an amount in mills: to the nearest 10 mills.
Round2(n, d) == RoundDiv(n, d * 10) * 10

\* The draws of random.uniform in generate_mock_indicators: u scales the RSI
\* noise (-1, 0, 1 for the low end, the middle and the high end of the
\* interval), v is volume_surge in tenths (1.0 + uniform(-0.5, 1.5)).
RsiDraws == {-1, 0, 1}

VolumeDraws == {10, 25}

Clamp(lo, x, hi) == IF x < lo THEN lo ELSE IF x > hi THEN hi ELSE x

\* generate_mock_indicators; rsi in tenths.
generate_mock_indicators(price, change_pct, high_52, low_52, u, v) ==
    LET rsi == IF high_52 > low_52
               THEN Clamp(150, 300 + ((price - low_52) * 400) \div (high_52 - low_52)
                               + u * 100, 850)
               ELSE 500 + u * 200
    IN  [rsi |-> rsi,
         rsi_signal |-> IF rsi < 300 THEN "OVERSOLD"
                        ELSE IF rsi > 700 THEN "OVERBOUGHT" ELSE "NEUTRAL",
         macd |-> IF change_pct > 100 THEN "BULLISH"
                  ELSE IF change_pct < -100 THEN "BEARISH" ELSE "NEUTRAL",
         above_20dma |-> change_pct > -50,
         above_50dma |-> price * 10 > low_52 * 10 + (high_52 - low_52) * 3,
         above_200dma |-> price * 10 > low_52 * 10 + (high_52 - low_52) * 2,
         volume_surge |-> v]

\* calculate_fibonacci_levels: the five levels (0.236 = 59/250, 0.382 = 191/500,
\* 0.618 = 309/500, 0.786 = 393/500), the zone and its signal.
calculate_fibonacci_levels(price, high_52, low_52) ==
    LET fib_range == high_52 - low_52
        fib_236 == Round2(high_52 * 250 - fib_range * 59, 250)
        fib_382 == Round2(high_52 * 500 - fib_range * 191, 500)
        fib_500 == Round2(high_52 * 2 - fib_range, 2)
        fib_618 == Round2(high_52 * 500 - fib_range * 309, 500)
        fib_786 == Round2(high_52 * 500 - fib_range * 393, 500)
        zone == IF price >= fib_236 THEN "ABOVE_236"
                ELSE IF price >= fib_382 THEN "236_TO_382"
                ELSE IF price >= fib_500 THEN "382_TO_500"
                ELSE IF price >= fib_618 THEN "500_TO_618"
                ELSE IF price >= fib_786 THEN "618_TO_786"
                ELSE "BELOW_786"
    IN  [swing_high |-> Round2(high_52, 1), swing_low |-> Round2(low_52, 1),
         fib_236 |-> fib_236, fib_382 |-> fib_382, fib_500 |-> fib_500,
         fib_618 |-> fib_618, fib_786 |-> fib_786,
         zone |-> zone,
         signal |-> IF zone \in {"ABOVE_236", "236_TO_382"} THEN "BULLISH"
                    ELSE IF zone \in {"382_TO_500", "500_TO_618"} THEN "NEUTRAL"
                    ELSE "BEARISH"]

\* The composite score of _process_stock (lines 53-97).
ScreenerScore(ind, change_pct, fib_signal) ==
    Clamp(0,
          50
          + (IF ind.rsi < 300 THEN 15 ELSE IF ind.rsi > 700 THEN -15 ELSE 0)
          + (IF ind.macd = "BULLISH" THEN 20
             ELSE IF ind.macd = "BEARISH" THEN -20 ELSE 0)
          + (IF ind.above_20dma THEN 5 ELSE 0)
          + (IF ind.above_50dma THEN 5 ELSE 0)
          + (IF ind.above_200dma THEN 5 ELSE 0)
          + (IF ind.volume_surge > 20
             THEN (IF change_pct > 0 THEN 10 ELSE -10) ELSE 0)
          + (IF fib_signal = "BULLISH" THEN 10
             ELSE IF fib_signal = "BEARISH" THEN -10 ELSE 0),
          100)

\* The recommendation thresholds of _process_stock (lines 99-114).
Recommendation(score) ==
    IF score >= 70 THEN "STRONG BUY"
    ELSE IF score >= 55 THEN "BUY"
    ELSE IF score >= 45 THEN "HOLD"
    ELSE IF score >= 30 THEN "SELL"
    ELSE "STRONG SELL"

BuyTiers == {"STRONG BUY", "BUY"}

SellTiers == {"STRONG SELL", "SELL"}

\* trading_levels; risk_reward in tenths ("1:3.5" is 35), NA for "N/A" and
\* for Python's None.
NA == 0 - 1

Levels(e, t, s, rr) == [entry |-> e, target |-> t, stoploss |-> s, risk_reward |-> rr]

\* The trading levels of _process_stock (lines 116-135): 0.995 = 199/200,
\* 1.03 = 103/100, 0.985 = 197/200, 1.005 = 201/200, 0.97 = 97/100,
\* 1.015 = 203/200; risk_reward from the rounded levels.
ProcessLevels(price, recommendation) ==
    IF recommendation \in BuyTiers
    THEN LET entry == Round2(price * 199, 200)
             target == Round2(price * 103, 100)
             stoploss == Round2(price * 197, 200)
             risk == entry - stoploss
             reward == target - entry
         IN  Levels(entry, target, stoploss,
                    IF risk > 0 THEN RoundDiv(reward * 10, risk) ELSE NA)
    ELSE IF recommendation \in SellTiers
    THEN LET entry == Round2(price * 201, 200)
             target == Round2(price * 97, 100)
             stoploss == Round2(price * 203, 200)
             risk == stoploss - entry
             reward == entry - target
         IN  Levels(entry, target, stoploss,
                    IF risk > 0 THEN RoundDiv(reward * 10, risk) ELSE NA)
    ELSE Levels(Round2(price, 1), Round2(price, 1), Round2(price, 1), NA)

\* A raw stock dict as the adapters build it; has_52 tells whether the keys
\* 'week_52_high' / 'week_52_low' are present.
StockData(symbol, price, change, change_pct, has_52, high, low) ==
    [symbol |-> symbol, price |-> price, change |-> change,
     change_pct |-> change_pct, has_52 |-> has_52,
     week_52_high |-> high, week_52_low |-> low]

\* A processed screener entry; ok = FALSE stands for Python's None.
NoEntry ==
    [ok |-> FALSE, symbol |-> "", price |-> 0, change |-> 0, change_pct |-> 0,
     volume_surge |-> 0, swing_high |-> 0, swing_low |-> 0, score |-> 0,
     recommendation |-> "", trading_levels |-> Levels(NA, NA, NA, NA)]

\* LiveStockScreener._process_stock with the two random draws made explicit.
_process_stock(stock_data, u, v) ==
    LET price == stock_data.price
        change_pct == stock_data.change_pct
        high_52 == IF stock_data.has_52 THEN stock_data.week_52_high
                   ELSE (price * 12) \div 10
        low_52 == IF stock_data.has_52 THEN stock_data.week_52_low
                  ELSE (price * 8) \div 10
        indicators == generate_mock_indicators(price, change_pct, high_52, low_52, u, v)
        fib_levels == calculate_fibonacci_levels(price, high_52, low_52)
        score == ScreenerScore(indicators, change_pct, fib_levels.signal)
        recommendation == Recommendation(score)
    IN  IF price <= 0 THEN NoEntry
        ELSE [ok |-> TRUE,
              symbol |-> stock_data.symbol,
              price |-> Round2(price, 1),
              change |-> Round2(stock_data.change, 1),
              change_pct |-> change_pct,
              volume_surge |-> indicators.volume_surge,
              swing_high |-> fib_levels.swing_high,
              swing_low |-> fib_levels.swing_low,
              score |-> score,
              recommendation |-> recommendation,
              trading_levels |-> ProcessLevels(price, recommendation)]

-----------------------------------------------------------------------------
(* The mock screener: stock_screener.StockScreener *)

\* The symbols of STOCK_LIST that the model keeps, with their BASE_PRICES.
STOCK_LIST == <<"RELIANCE", "ITC">>

BASE_PRICES == [s \in {"RELIANCE", "ITC"} |-> IF s = "RELIANCE" THEN 2450000 ELSE 430000]

\* The draws of _generate_stock_data: change_pct, rsi (tenths), the MACD
\* choice, volume_surge (tenths), the three moving-average choices and the
\* swing range (percent of the base price).
MockDraw(cp, rsi, macd, vol, a20, a50, a200, swing) ==
    [change_pct |-> cp, rsi |-> rsi, macd |-> macd, volume_surge |-> vol,
     above_20dma |-> a20, above_50dma |-> a50, above_200dma |-> a200,
     swing_pct |-> swing]

\* The recommendation thresholds of StockScreener._generate_stock_data
\* (lines 176-191).
MockRecommendation(score) ==
    IF score >= 70 THEN "STRONG BUY"
    ELSE IF score >= 55 THEN "BUY"
    ELSE IF score <= 30 THEN "STRONG SELL"
    ELSE IF score <= 45 THEN "SELL"
    ELSE "HOLD"

\* The trading levels of _generate_stock_data (lines 193-211): 0.998 = 499/500,
\* 1.002 = 501/500; HOLD has no levels (None).
MockLevels(price, recommendation) ==
    IF recommendation \in BuyTiers
    THEN Levels(Round2(price * 499, 500), Round2(price * 103, 100),
                Round2(price * 197, 200), 20)
    ELSE IF recommendation \in SellTiers
    THEN Levels(Round2(price * 501, 500), Round2(price * 97, 100),
                Round2(price * 203, 200), 20)
    ELSE Levels(NA, NA, NA, NA)

\* StockScreener._generate_stock_data for one symbol and one set of draws.
_generate_stock_data(symbol, d) ==
    LET base_price == BASE_PRICES[symbol]
        current_price == base_price + (base_price * d.change_pct) \div 10000
        swing_range == (base_price * d.swing_pct) \div 100
        swing_high == base_price + swing_range \div 2
        swing_low == base_price - swing_range \div 2
        fib == calculate_fibonacci_levels(current_price, swing_high, swing_low)
        score == ScreenerScore(d, d.change_pct, fib.signal)
        recommendation == MockRecommendation(score)
    IN  [ok |-> TRUE,
         symbol |-> symbol,
         price |-> Round2(current_price, 1),
         change |-> Round2(current_price - base_price, 1),
         change_pct |-> d.change_pct,
         volume_surge |-> d.volume_surge,
         swing_high |-> fib.swing_high,
         swing_low |-> fib.swing_low,
         score |-> score,
         recommendation |-> recommendation,
         trading_levels |-> MockLevels(current_price, recommendation)]

-----------------------------------------------------------------------------
(* Sorting as Python's sorted(): stable insertion by an integer key *)

RECURSIVE InsertByKey(_, _, _, _)
\* x is put behind every element it does not strictly precede.
InsertByKey(x, t, key, reverse) ==
    IF t = <<>> THEN <<x>>
    ELSE IF (IF reverse THEN key[x] > key[Head(t)] ELSE key[x] < key[Head(t)])
         THEN <<x>> \o t
         ELSE <<Head(t)>> \o InsertByKey(x, Tail(t), key, reverse)

RECURSIVE SortedByKey(_, _, _)
\* The indices s ordered by key (descending when reverse), ties in s's order.
SortedByKey(s, key, reverse) ==
    IF s = <<>> THEN <<>>
    ELSE LET n == Len(s)
             rest == SortedByKey(SubSeq(s, 1, n - 1), key, reverse)
         IN  IF rest = <<>> THEN <<s[n]>>
             ELSE IF (IF reverse THEN key[s[n]] > key[rest[Len(rest)]]
                                 ELSE key[s[n]] < key[rest[Len(rest)]])
                  THEN InsertByKey(s[n], rest, key, reverse)
                  ELSE Append(rest, s[n])

RECURSIVE SelectIdx(_, _)
\* The indices 1..n (ascending) that are in the set keep.
SelectIdx(n, keep) ==
    IF n = 0 THEN <<>>
    ELSE IF n \in keep THEN Append(SelectIdx(n - 1, keep), n)
    ELSE SelectIdx(n - 1, keep)

-----------------------------------------------------------------------------
(* The NSE universe adapters and the last-close fallback of live_data.py *)

\* Python's None for a timestamp or a date.
Never == 0 - 1

\* datetime.now().date(), as the number of the local day.
Date(t) == t \div 86400

\* One row of 'data' in the equity-stockIndices answer; has_year tells
\* whether it carries yearHigh / yearLow.
Item(symbol, lastPrice, change, pChange, has_year, yearHigh, yearLow) ==
    [symbol |-> symbol, lastPrice |-> lastPrice, change |-> change,
     pChange |-> pChange, has_year |-> has_year,
     yearHigh |-> yearHigh, yearLow |-> yearLow]

IndexRow == Item("NIFTY 500", 0, 0, 0, FALSE, 0, 0)

\* What the NIFTY 500 endpoint can answer: an exception or non-200 status
\* (status 0), or a body whose 'data' starts with the index row.
Nifty500Responses ==
    { [status |-> 0, data |-> <<>>],
      [status |-> 200, data |-> <<>>],
      [status |-> 200,
       data |-> <<IndexRow,
                  Item("RELIANCE", 100000, 2000, 200, TRUE, 120000, 80000),
                  Item("NYKAA", 100000, -2000, -200, FALSE, 0, 0),
                  Item("TCS", 0, 0, 0, TRUE, 120000, 80000)>>] }

\* What the NIFTY 50 endpoint can answer.
Nifty50Responses ==
    { [status |-> 0, data |-> <<>>],
      [status |-> 200,
       data |-> <<IndexRow,
                  Item("RELIANCE", 100000, 0, 0, TRUE, 120000, 80000)>>] }

\* The dict both universe adapters build from one row: missing yearHigh /
\* yearLow read as 0, and the keys week_52_high / week_52_low are always set.
StockFromItem(item) ==
    StockData(item.symbol, item.lastPrice, item.change, item.pChange, TRUE,
              IF item.has_year THEN item.yearHigh ELSE 0,
              IF item.has_year THEN item.yearLow ELSE 0)

\* data[1:] converted row by row.
StocksFromData(data) ==
    IF Len(data) <= 1 THEN <<>>
    ELSE [i \in 1..(Len(data) - 1) |-> StockFromItem(data[i + 1])]

fetch_nifty50_stocks(resp) ==
    IF resp.status = 200 THEN StocksFromData(resp.data) ELSE <<>>

\* fetch_all_equity_stocks: on an exception or non-200 status it answers
\* with fetch_nifty50_stocks().
fetch_all_equity_stocks(resp, resp50) ==
    IF resp.status = 200 THEN StocksFromData(resp.data)
    ELSE fetch_nifty50_stocks(resp50)

\* What the parallel NSELive.stock_quote round of fetch_last_close_data can
\* leave in stocks_data, in completion order: nothing (import error,
\* exception, no quote), or the dicts of the quotes that arrived.
LastCloseFetches ==
    { <<>>,
      <<StockData("NYKAA", 100000, -2000, -200, TRUE, 120000, 80000),
        StockData("TCS", 0, 0, 0, TRUE, 0, 0),
        StockData("RELIANCE", 100000, 2000, 200, TRUE, 120000, 80000)>>,
      <<StockData("RELIANCE", 100000, 0, 0, TRUE, 0, 0)>> }

\* A last-close cache that never expires: the stored list is served whatever
\* the date.
fetch_last_close_undated(cache, date, t, fetched) ==
    IF cache # <<>>
    THEN [ret |-> cache, cache |-> cache, date |-> date, upstream |-> FALSE]
    ELSE IF fetched # <<>>
         THEN [ret |-> fetched, cache |-> fetched, date |-> Date(t),
               upstream |-> TRUE]
         ELSE [ret |-> <<>>, cache |-> cache, date |-> date, upstream |-> TRUE]

\* fetch_last_close_data at instant t with the globals cache and date;
\* fetched is what the upstream round would deliver.  The answer, the new
\* globals, and whether the upstream was asked.
fetch_last_close_data(cache, date, t, fetched) ==
    LET today == Date(t)
    IN  IF cache # <<>> /\ date = today
        THEN [ret |-> cache, cache |-> cache, date |-> date, upstream |-> FALSE]
        ELSE IF fetched # <<>>
             THEN [ret |-> fetched, cache |-> fetched, date |-> today,
                   upstream |-> TRUE]
             ELSE [ret |-> <<>>, cache |-> cache, date |-> date,
                   upstream |-> TRUE]

-----------------------------------------------------------------------------
(* LiveStockScreener: the 60 s cache clock *)

_cache_duration == 60

\* timedelta.seconds: the seconds left after the whole days are taken out.
TimedeltaSeconds(d) == d % 86400

\* LiveStockScreener._should_refresh at instant t.
_should_refresh(last_refresh, t) ==
    IF last_refresh = Never THEN TRUE
    ELSE TimedeltaSeconds(t - last_refresh) > _cache_duration

-----------------------------------------------------------------------------
(* Per-stock price sources *)

\* MC_STOCK_IDS: the symbols with a static Moneycontrol id (of those the
\* model uses).
MC_STOCK_IDS == {"RELIANCE", "TCS", "ITC"}

StockQuote(p, c, cp, h, l) ==
    [ok |-> TRUE, price |-> p, change |-> c, change_pct |-> cp,
     high_52 |-> h, low_52 |-> l]

NoStockQuote ==
    [ok |-> FALSE, price |-> 0, change |-> 0, change_pct |-> 0,
     high_52 |-> 0, low_52 |-> 0]

\* What the Moneycontrol equity endpoint can answer (as McResponses, with the
\* 52-week fields).
McStockResponses ==
    { [kind |-> "error", has_price |-> FALSE, pricecurrent |-> 0,
       pricechange |-> 0, pricepercentchange |-> 0, h52 |-> 0, l52 |-> 0],
      [kind |-> "data", has_price |-> TRUE, pricecurrent |-> 110000,
       pricechange |-> -4950, pricepercentchange |-> -450,
       h52 |-> 120000, l52 |-> 80000],
      [kind |-> "data", has_price |-> FALSE, pricecurrent |-> 0,
       pricechange |-> 1000, pricepercentchange |-> 100, h52 |-> 0, l52 |-> 0] }

\* fetch_moneycontrol_stock: None without a request when the symbol has no
\* id, None on error / non-200 / bad body, else the parsed fields.
fetch_moneycontrol_stock(symbol, resp) ==
    IF symbol \notin MC_STOCK_IDS THEN NoStockQuote
    ELSE IF resp.kind # "data" THEN NoStockQuote
    ELSE StockQuote(IF resp.has_price THEN resp.pricecurrent ELSE 0,
                    resp.pricechange, resp.pricepercentchange,
                    resp.h52, resp.l52)

\* What the Google Finance page of a stock can answer; when both sources
\* answer they quote the same price and percentage.
GfStockResponses ==
    { [kind |-> "error", price |-> 0, has_pct |-> FALSE, pct |-> 0],
      [kind |-> "page", price |-> 110000, has_pct |-> TRUE, pct |-> -450],
      [kind |-> "page", price |-> 0, has_pct |-> TRUE, pct |-> 200] }

\* fetch_google_finance_data for a stock, in the shape of StockQuote.
GfStockQuote(resp) ==
    LET q == fetch_google_finance_data(resp)
    IN  IF q.ok THEN StockQuote(q.price, q.change, q.change_pct, 0, 0)
        ELSE NoStockQuote

-----------------------------------------------------------------------------
(* LiveStockScreener.get_screener_data *)

Filters == {"all", "buy", "sell", "top_gainers", "top_losers"}

\* The cut of the top_gainers / top_losers lists.
TopN == 20

\* data_source: the plain tier names, or the f-string of lines 330-333 with
\* its two counters.
DataSource(text) == [text |-> text, mc |-> 0, gf |-> 0]

Refreshed(mc, gf) == [text |-> "LIVE(MC:{}+GF:{})", mc |-> mc, gf |-> gf]

\* The entries _process_stock makes of the raw dicts, those it drops left out.
ProcessAll(raw_stocks, u, v) ==
    SelectSeq([i \in 1..Len(raw_stocks) |-> _process_stock(raw_stocks[i], u, v)],
              LAMBDA e : e.ok)

\* _generate_fallback_stocks: the mock screener's "all" list, sorted by score.
_generate_fallback_stocks(run) ==
    LET mock == [i \in 1..Len(STOCK_LIST) |-> _generate_stock_data(STOCK_LIST[i], run[i])]
        order == SortedByKey(SelectIdx(Len(mock), 1..Len(mock)),
                             [i \in 1..Len(mock) |-> mock[i].score], TRUE)
    IN  [j \in 1..Len(order) |-> mock[order[j]]]

\* The draws of one mock run, one per symbol of STOCK_LIST.
MockRuns ==
    { <<MockDraw(200, 500, "BULLISH", 10, TRUE, TRUE, TRUE, 10),
        MockDraw(-200, 500, "NEUTRAL", 10, TRUE, FALSE, FALSE, 10)>>,
      <<MockDraw(-200, 500, "BEARISH", 10, TRUE, TRUE, FALSE, 10),
        MockDraw(0, 500, "NEUTRAL", 10, FALSE, FALSE, FALSE, 10)>> }

FirstN(s, n) == IF Len(s) <= n THEN s ELSE SubSeq(s, 1, n)

\* The filter of lines 261-273, as the indices of the chosen entries.
FilterIdx(stocks, f) ==
    LET n == Len(stocks)
        cp == [i \in 1..n |-> stocks[i].change_pct]
    IN  IF f = "buy"
        THEN SelectIdx(n, {i \in 1..n : stocks[i].recommendation \in BuyTiers})
        ELSE IF f = "sell"
        THEN SelectIdx(n, {i \in 1..n : stocks[i].recommendation \in SellTiers})
        ELSE IF f = "top_gainers"
        THEN FirstN(SortedByKey(SelectIdx(n, {i \in 1..n : cp[i] > 0}), cp, TRUE), TopN)
        ELSE IF f = "top_losers"
        THEN FirstN(SortedByKey(SelectIdx(n, {i \in 1..n : cp[i] < 0}), cp, FALSE), TopN)
        ELSE SelectIdx(n, 1..n)

\* The trading levels the refresh loop writes (lines 311-328): BUY and SELL
\* tiers only, risk_reward fixed to "1:3.0"; no branch for HOLD.
RefreshLevels(stock, new_price) ==
    IF stock.recommendation \in BuyTiers
    THEN Levels(Round2(new_price * 199, 200), Round2(new_price * 103, 100),
                Round2(new_price * 197, 200), 30)
    ELSE IF stock.recommendation \in SellTiers
    THEN Levels(Round2(new_price * 201, 200), Round2(new_price * 97, 100),
                Round2(new_price * 203, 200), 30)
    ELSE stock.trading_levels

\* One pass of the refresh loop (lines 280-328) over one entry.
RefreshStock(stock, mc_data, gf_data) ==
    LET mc_ok == mc_data.ok /\ mc_data.price > 0
        gf_ok == ~mc_ok /\ gf_data.ok /\ gf_data.price > 0
        q == IF mc_ok THEN mc_data ELSE gf_data
    IN  IF mc_ok \/ gf_ok
        THEN [stock EXCEPT !.price = Round2(q.price, 1),
                           !.change = Round2(q.change, 1),
                           !.change_pct = q.change_pct,
                           !.trading_levels = RefreshLevels(stock, q.price)]
        ELSE stock

CountRec(stocks, tiers) ==
    Cardinality({i \in 1..Len(stocks) : stocks[i].recommendation \in tiers})

\* A summary counted over the filtered entries only.
SummaryOfFiltered(stocks, filtered) ==
    LET shown == [i \in 1..Len(filtered) |-> stocks[filtered[i]]]
    IN  [total |-> Len(shown),
         buy_signals |-> CountRec(shown, BuyTiers),
         sell_signals |-> CountRec(shown, SellTiers),
         hold_signals |-> CountRec(shown, {"HOLD"})]

\* The summary of lines 335-347.
Summary(stocks, filtered) ==
    [total |-> Len(stocks),
     buy_signals |-> CountRec(stocks, BuyTiers),
     sell_signals |-> CountRec(stocks, SellTiers),
     hold_signals |-> CountRec(stocks, {"HOLD"})]

NoScrRet ==
    [valid |-> FALSE, stocks |-> <<>>,
     summary |-> [total |-> 0, buy_signals |-> 0, sell_signals |-> 0,
                  hold_signals |-> 0],
     filter |-> "", t |-> 0, data_source |-> DataSource("UNKNOWN")]

NoScrLog == [tier |-> "", empty |-> <<>>, fetches |-> 0, cache_age |-> Never]

NoScrPrev == [valid |-> FALSE, t |-> 0, fetches |-> 0, stocks |-> <<>>]

\* What is remembered of the latest call at instant t: when it returned, how
\* many bulk fetches it made, and the symbols and prices it returned; nothing
\* once it is 60 s or more in the past.
Remember(t) ==
    LET last == IF scr_ret.valid
                THEN [valid |-> TRUE, t |-> scr_ret.t, fetches |-> scr_log.fetches,
                      stocks |-> [i \in 1..Len(scr_ret.stocks) |->
                                    <<scr_ret.stocks[i].symbol,
                                      scr_ret.stocks[i].price>>]]
                ELSE scr_prev
    IN  IF last.valid /\ t - last.t < _cache_duration THEN last ELSE NoScrPrev

Idle == scr_pc \in {"idle", "done"} /\ det_pc \in {"idle", "done"}

\* What lines 220-223 can leave in raw_stocks: the answer of
\* fetch_all_equity_stocks (which asks NIFTY 50 itself when NIFTY 500 fails)
\* or, if that is empty, of a further fetch_nifty50_stocks.
BulkFetches ==
    { IF fetch_all_equity_stocks(resp, resp50) = <<>>
      THEN fetch_nifty50_stocks(again50)
      ELSE fetch_all_equity_stocks(resp, resp50) :
        resp \in Nifty500Responses, resp50 \in Nifty50Responses,
        again50 \in Nifty50Responses }

\* The clock is advanced at most MaxTicks times.
MaxTicks == 3

\* Between requests: 30 s, and every third time a day less 30 s.
Gap(n) == IF n % 3 = 0 THEN 86370 ELSE 30

\* A request arrives, at once or after time has passed (the first one when
\* the clock reads 0): the locals of lines 214-215.
ScrStart ==
    /\ Idle
    /\ \/ UNCHANGED clock_vars
       \/ /\ scr_pc = "done"
          /\ ticks < MaxTicks
          /\ now' = now + Gap(ticks + 1)
          /\ ticks' = ticks + 1
    /\ \E f \in Filters : filter_type' = f
    /\ all_stocks' = <<>>
    /\ data_source' = DataSource("UNKNOWN")
    /\ filtered_stocks' = <<>>
    /\ scr_i' = 1
    /\ updated' = [mc |-> 0, gf |-> 0]
    /\ scr_prev' = Remember(now')
    /\ scr_ret' = NoScrRet
    /\ scr_log' = NoScrLog
    /\ scr_pc' = "live"
    /\ UNCHANGED <<dash_vars, store_vars, lc_vars, det_vars,
                   net_vars, ext_vars>>

\* Lines 217-235: get_nse_session(), the bulk fetch, the NIFTY 50 retry,
\* _process_stock on every row; a non-empty result becomes the cache.
ScrLive ==
    /\ scr_pc = "live"
    /\ \E raw_stocks \in BulkFetches, u \in RsiDraws, v \in VolumeDraws :
         LET processed == ProcessAll(raw_stocks, u, v)
         IN  IF processed # <<>>
             THEN /\ all_stocks' = processed
                  /\ _cache' = processed
                  /\ _last_refresh' = now
                  /\ data_source' = DataSource("LIVE")
                  /\ scr_log' = [scr_log EXCEPT !.tier = "LIVE", !.fetches = @ + 1]
                  /\ scr_pc' = "filter"
             ELSE /\ scr_log' = [scr_log EXCEPT !.fetches = @ + 1,
                                               !.empty = Append(@, "LIVE")]
                  /\ scr_pc' = "cached"
                  /\ UNCHANGED <<all_stocks, data_source, store_vars>>
    /\ nse_session' = nse_session \cup {"call"}
    /\ UNCHANGED <<filter_type, filtered_stocks, scr_i, updated, scr_ret, scr_prev>>
    /\ UNCHANGED <<dash_vars, clock_vars, lc_vars, det_vars, oc_log, ext_vars>>

\* Lines 237-241: no live entry and a non-empty cache.
ScrCached ==
    /\ scr_pc = "cached"
    /\ IF all_stocks = <<>> /\ _cache # <<>>
       THEN /\ all_stocks' = _cache
            /\ data_source' = DataSource("CACHED")
            /\ scr_log' = [scr_log EXCEPT !.tier = "CACHED",
                                          !.cache_age = IF _last_refresh = Never THEN Never
                                                        ELSE now - _last_refresh]
            /\ scr_pc' = "filter"
       ELSE /\ scr_pc' = "last_close"
            /\ scr_log' = [scr_log EXCEPT !.empty = Append(@, "CACHED")]
            /\ UNCHANGED <<all_stocks, data_source>>
    /\ UNCHANGED <<filter_type, filtered_stocks, scr_i, updated, scr_ret, scr_prev>>
    /\ UNCHANGED <<dash_vars, clock_vars, store_vars, lc_vars,
                   det_vars, net_vars, ext_vars>>

\* The bookkeeping of one fetch_last_close_data call.
LastCloseCall(r, fetched) ==
    /\ _last_close_cache' = r.cache
    /\ _last_close_cache_date' = r.date
    /\ lc_log' = [ret |-> r.ret, upstream |-> r.upstream,
                  fetched |-> IF r.upstream THEN fetched ELSE <<>>,
                  flip |-> 1 - lc_log.flip]

\* Lines 243-252: still no entry; a non-empty last-close list is processed
\* and becomes the cache, even if every row was dropped.
ScrLastClose ==
    /\ scr_pc = "last_close"
    /\ \E fetched \in LastCloseFetches, u \in RsiDraws, v \in VolumeDraws :
         LET r == fetch_last_close_data(_last_close_cache, _last_close_cache_date,
                                        now, fetched)
             processed == ProcessAll(r.ret, u, v)
         IN  /\ LastCloseCall(r, fetched)
             /\ IF r.ret # <<>>
                THEN /\ all_stocks' = processed
                     /\ data_source' = DataSource("LAST CLOSE")
                     /\ _cache' = processed
                     /\ scr_log' = IF processed # <<>>
                                    THEN [scr_log EXCEPT !.tier = "LAST CLOSE"]
                                    ELSE [scr_log EXCEPT
                                            !.empty = Append(@, "LAST CLOSE")]
                     /\ scr_pc' = IF processed # <<>> THEN "filter" ELSE "mock"
                     /\ UNCHANGED _last_refresh
                ELSE /\ scr_pc' = "mock"
                     /\ scr_log' = [scr_log EXCEPT
                                      !.empty = Append(@, "LAST CLOSE")]
                     /\ UNCHANGED <<all_stocks, data_source, store_vars>>
    /\ UNCHANGED <<filter_type, filtered_stocks, scr_i, updated, scr_ret, scr_prev>>
    /\ UNCHANGED <<dash_vars, clock_vars, det_vars, net_vars, ext_vars>>

\* Lines 254-258: the mock list, which also becomes the cache.
ScrMock ==
    /\ scr_pc = "mock"
    /\ \E run \in MockRuns :
         /\ all_stocks' = _generate_fallback_stocks(run)
         /\ _cache' = all_stocks'
    /\ data_source' = DataSource("MOCK")
    /\ scr_log' = [scr_log EXCEPT !.tier = "MOCK"]
    /\ scr_pc' = "filter"
    /\ UNCHANGED <<_last_refresh, filter_type, filtered_stocks, scr_i, updated,
                   scr_ret, scr_prev>>
    /\ UNCHANGED <<dash_vars, clock_vars, lc_vars, det_vars,
                   net_vars, ext_vars>>

\* Lines 261-278.
ScrFilter ==
    /\ scr_pc = "filter"
    /\ filtered_stocks' = FilterIdx(all_stocks, filter_type)
    /\ scr_pc' = "refresh"
    /\ UNCHANGED <<filter_type, all_stocks, data_source, scr_i, updated, scr_ret,
                   scr_log, scr_prev>>
    /\ UNCHANGED <<dash_vars, clock_vars, store_vars, lc_vars,
                   det_vars, net_vars, ext_vars>>

\* One iteration of the loop of lines 280-328.  The entry is the very dict
\* the cache holds, so the cache sees the update.
ScrRefresh ==
    /\ scr_pc = "refresh"
    /\ scr_i <= Len(filtered_stocks)
    /\ \E mc \in McStockResponses, gf \in GfStockResponses :
         LET k == filtered_stocks[scr_i]
             stock == all_stocks[k]
             mc_data == fetch_moneycontrol_stock(stock.symbol, mc)
             mc_ok == mc_data.ok /\ mc_data.price > 0
             gf_data == IF mc_ok THEN NoStockQuote ELSE GfStockQuote(gf)
             gf_ok == gf_data.ok /\ gf_data.price > 0
         IN  /\ all_stocks' = [all_stocks EXCEPT
                                 ![k] = RefreshStock(stock, mc_data, gf_data)]
             /\ updated' = [mc |-> updated.mc + (IF mc_ok THEN 1 ELSE 0),
                            gf |-> updated.gf + (IF gf_ok THEN 1 ELSE 0)]
    /\ _cache' = all_stocks'
    /\ scr_i' = scr_i + 1
    /\ UNCHANGED <<_last_refresh, scr_pc, filter_type, data_source,
                   filtered_stocks, scr_ret, scr_log, scr_prev>>
    /\ UNCHANGED <<dash_vars, clock_vars, lc_vars, det_vars,
                   net_vars, ext_vars>>

\* Lines 330-351: the data_source rewrite, the summary and the response.
ScrReturn ==
    /\ scr_pc = "refresh"
    /\ scr_i > Len(filtered_stocks)
    /\ scr_ret' = [valid |-> TRUE,
                   stocks |-> [i \in 1..Len(filtered_stocks) |->
                                 all_stocks[filtered_stocks[i]]],
                   summary |-> Summary(all_stocks, filtered_stocks),
                   filter |-> filter_type,
                   t |-> now,
                   data_source |-> IF updated.mc + updated.gf > 0
                                   THEN Refreshed(updated.mc, updated.gf)
                                   ELSE data_source]
    /\ scr_pc' = "done"
    /\ UNCHANGED <<filter_type, all_stocks, data_source, filtered_stocks, scr_i,
                   updated, scr_log, scr_prev>>
    /\ UNCHANGED <<dash_vars, clock_vars, store_vars, lc_vars,
                   det_vars, net_vars, ext_vars>>

-----------------------------------------------------------------------------
(* LiveStockScreener.get_stock_details *)

DetSymbols == {"RELIANCE", "NYKAA"}

StockSources == <<"moneycontrol", "google_finance", "nse_quote", "historical">>

NoDetIn == [s \in {StockSources[i] : i \in 1..4} |-> NoStockQuote]

\* What the NSE quote-equity endpoint (fetch_stock_quote) and the NSELive
\* library (fetch_fallback_quote) can answer: an error, or a quote whose
\* priceInfo may lack the price and the 52-week range.
NseQuoteResponses ==
    { [kind |-> "error", price |-> 0, change |-> 0, pChange |-> 0,
       max |-> 0, min |-> 0],
      [kind |-> "quote", price |-> 100000, change |-> 2000, pChange |-> 200,
       max |-> 120000, min |-> 80000],
      [kind |-> "quote", price |-> 0, change |-> 0, pChange |-> 0,
       max |-> 0, min |-> 0] }

FallbackResponses ==
    { [kind |-> "error", price |-> 0, change |-> 0, pChange |-> 0,
       max |-> 0, min |-> 0],
      [kind |-> "quote", price |-> 90000, change |-> -1800, pChange |-> -200,
       max |-> 120000, min |-> 80000],
      [kind |-> "quote", price |-> 0, change |-> 0, pChange |-> 0,
       max |-> 0, min |-> 0] }

\* fetch_stock_quote: None on an exception or non-200 status, else the dict
\* with every missing field read as 0.
fetch_stock_quote(resp) ==
    IF resp.kind # "quote" THEN NoStockQuote
    ELSE StockQuote(resp.price, resp.change, resp.pChange, resp.max, resp.min)

\* fetch_fallback_quote: None on an exception or a quote without priceInfo.
fetch_fallback_quote(resp) ==
    IF resp.kind # "quote" THEN NoStockQuote
    ELSE StockQuote(resp.price, resp.change, resp.pChange, resp.max, resp.min)

\* The first index at which the cache holds the symbol, 0 if none.
CacheIndex(cache, symbol) ==
    IF \E i \in 1..Len(cache) : cache[i].symbol = symbol
    THEN CHOOSE i \in 1..Len(cache) :
           /\ cache[i].symbol = symbol
           /\ \A j \in 1..(i - 1) : cache[j].symbol # symbol
    ELSE 0

\* Lines 381-403: the levels get_stock_details writes into a cached entry.
DetailLevels(recommendation, new_price) ==
    IF recommendation \in BuyTiers
    THEN Levels(Round2(new_price * 199, 200), Round2(new_price * 103, 100),
                Round2(new_price * 197, 200), 30)
    ELSE IF recommendation \in SellTiers
    THEN Levels(Round2(new_price * 201, 200), Round2(new_price * 97, 100),
                Round2(new_price * 203, 200), 30)
    ELSE Levels(Round2(new_price, 1), Round2(new_price, 1),
                Round2(new_price, 1), NA)

\* Lines 362-403: a cached entry takes over the quote.
DetailUpdate(stock, q) ==
    [stock EXCEPT !.price = q.price, !.change = q.change,
                  !.change_pct = q.change_pct,
                  !.trading_levels = DetailLevels(stock.recommendation, q.price)]

Priced(q) == q.ok /\ q.price > 0

\* Google Finance asked on every lookup.
AlwaysGoogle(mc_data) ==
    TRUE

\* Line 417: Google Finance is asked when Moneycontrol gave nothing or 0.
NeedsGoogle(mc_data) ==
    ~mc_data.ok \/ mc_data.price = 0

\* Lines 424-470: what the uncached path makes of the three answers; NoEntry
\* when it has to go on to the historical library.
DetailResolve(symbol, mc_data, gf_data, stock_quote, u, v) ==
    LET q == IF Priced(mc_data) THEN mc_data
             ELSE IF Priced(gf_data) THEN gf_data ELSE stock_quote
    IN  IF stock_quote.ok /\ q.price > 0
        THEN _process_stock(StockData(symbol, q.price, q.change, q.change_pct,
                                      TRUE, stock_quote.high_52,
                                      stock_quote.low_52), u, v)
        ELSE IF Priced(mc_data)
        THEN _process_stock(StockData(symbol, mc_data.price, mc_data.change,
                                      mc_data.change_pct, TRUE,
                                      mc_data.high_52, mc_data.low_52), u, v)
        ELSE IF Priced(gf_data)
        THEN _process_stock(StockData(symbol, gf_data.price, gf_data.change,
                                      gf_data.change_pct, TRUE,
                                      (gf_data.price * 12) \div 10,
                                      (gf_data.price * 8) \div 10), u, v)
        ELSE NoEntry

Returned(stock) == [returned |-> TRUE, stock |-> stock]

\* A request arrives; the loop of line 356 finds the symbol in the cache or
\* does not, and then get_nse_session() runs (line 411).
DetStart ==
    /\ Idle
    /\ \E symbol \in DetSymbols :
         /\ det_symbol' = symbol
         /\ det_k' = CacheIndex(_cache, symbol)
    /\ det_in' = NoDetIn
    /\ det_calls' = <<>>
    /\ det_ret' = [returned |-> FALSE, stock |-> NoEntry]
    /\ det_pc' = "moneycontrol"
    /\ nse_session' = IF det_k' = 0 THEN nse_session \cup {"call"} ELSE nse_session
    /\ UNCHANGED <<dash_vars, clock_vars, store_vars, lc_vars,
                   scr_vars, oc_log, ext_vars>>

\* Lines 362-369 and 413: Moneycontrol; a request goes out only for a symbol
\* with an id.  A cached entry that gets a price is updated and returned.
DetMoneycontrol ==
    /\ det_pc = "moneycontrol"
    /\ \E mc \in McStockResponses :
         LET mc_data == fetch_moneycontrol_stock(det_symbol, mc)
         IN  /\ det_in' = [det_in EXCEPT !["moneycontrol"] = mc_data]
             /\ IF det_k > 0 /\ Priced(mc_data)
                THEN /\ _cache' = [_cache EXCEPT
                                     ![det_k] = DetailUpdate(_cache[det_k], mc_data)]
                     /\ det_ret' = Returned(_cache'[det_k])
                     /\ det_pc' = "done"
                ELSE /\ det_pc' = "google_finance"
                     /\ UNCHANGED <<_cache, det_ret>>
    /\ det_calls' = IF det_symbol \in MC_STOCK_IDS
                    THEN Append(det_calls, "moneycontrol") ELSE det_calls
    /\ UNCHANGED <<_last_refresh, det_symbol, det_k>>
    /\ UNCHANGED <<dash_vars, clock_vars, lc_vars, scr_vars,
                   net_vars, ext_vars>>

\* Lines 370-380 and 415-418: Google Finance.  A cached entry is returned
\* either way, updated or as it is.
DetGoogle ==
    /\ det_pc = "google_finance"
    /\ IF det_k > 0 \/ NeedsGoogle(det_in["moneycontrol"])
       THEN /\ \E gf \in GfStockResponses :
                 LET gf_data == GfStockQuote(gf)
                 IN  /\ det_in' = [det_in EXCEPT !["google_finance"] = gf_data]
                     /\ IF det_k > 0
                        THEN /\ _cache' =
                                  IF Priced(gf_data)
                                  THEN [_cache EXCEPT
                                          ![det_k] = DetailUpdate(_cache[det_k], gf_data)]
                                  ELSE _cache
                             /\ det_ret' = Returned(_cache'[det_k])
                             /\ det_pc' = "done"
                        ELSE /\ det_pc' = "nse_quote"
                             /\ UNCHANGED <<_cache, det_ret>>
            /\ det_calls' = Append(det_calls, "google_finance")
       ELSE /\ det_pc' = "nse_quote"
            /\ UNCHANGED <<_cache, det_in, det_calls, det_ret>>
    /\ UNCHANGED <<_last_refresh, det_symbol, det_k>>
    /\ UNCHANGED <<dash_vars, clock_vars, lc_vars, scr_vars,
                   net_vars, ext_vars>>

\* Lines 420-470: the NSE quote is fetched whatever the first two gave; then
\* the first usable combination is processed and returned.
DetNseQuote ==
    /\ det_pc = "nse_quote"
    /\ \E nse \in NseQuoteResponses, u \in RsiDraws, v \in VolumeDraws :
         LET stock_quote == fetch_stock_quote(nse)
             entry == DetailResolve(det_symbol, det_in["moneycontrol"],
                                    det_in["google_finance"], stock_quote, u, v)
         IN  /\ det_in' = [det_in EXCEPT !["nse_quote"] = stock_quote]
             /\ IF entry.ok
                THEN det_ret' = Returned(entry) /\ det_pc' = "done"
                ELSE det_pc' = "historical" /\ UNCHANGED det_ret
    /\ det_calls' = Append(det_calls, "nse_quote")
    /\ UNCHANGED <<det_symbol, det_k>>
    /\ UNCHANGED <<dash_vars, clock_vars, store_vars, lc_vars,
                   scr_vars, net_vars, ext_vars>>

\* Lines 472-481: the historical library, then None.
DetHistorical ==
    /\ det_pc = "historical"
    /\ \E fb \in FallbackResponses, u \in RsiDraws, v \in VolumeDraws :
         LET fallback_quote == fetch_fallback_quote(fb)
             entry == IF fallback_quote.ok
                      THEN _process_stock(
                               StockData(det_symbol, fallback_quote.price,
                                         fallback_quote.change,
                                         fallback_quote.change_pct, TRUE,
                                         fallback_quote.high_52,
                                         fallback_quote.low_52), u, v)
                      ELSE NoEntry
         IN  /\ det_in' = [det_in EXCEPT !["historical"] = fallback_quote]
             /\ det_ret' = Returned(entry)
    /\ det_calls' = Append(det_calls, "historical")
    /\ det_pc' = "done"
    /\ UNCHANGED <<det_symbol, det_k>>
    /\ UNCHANGED <<dash_vars, clock_vars, store_vars, lc_vars,
                   scr_vars, net_vars, ext_vars>>

-----------------------------------------------------------------------------
(* Two requests in the thread pool: the refresh loop of get_screener_data  *)
(* and the cached path of get_stock_details on the same cache, statement   *)
(* by statement                                                            *)

\* What the price sources answer to the two requests: nothing, or one of two
\* quotes taken at different moments.
ThreadQuotes ==
    { NoStockQuote,
      StockQuote(110000, -4950, -450, 120000, 80000),
      StockQuote(120000, 6000, 500, 120000, 80000) }

\* stock[field] = value on the dict at position k of the cache.
WriteField(cache, k, field, value) ==
    [cache EXCEPT ![k] = [@ EXCEPT ![field] = value]]

\* The order in which the refresh loop writes an entry: lines 291-292 (or
\* 304-305), 313, 315-328.
RefreshOrder == <<"change", "change_pct", "price", "trading_levels">>

\* The order in which get_stock_details writes a cached entry: lines 365-367
\* (or 373-375), 382-403.
DetailOrder == <<"price", "change", "change_pct", "trading_levels">>

\* The value the refresh loop assigns to a field from the quote q.
RefreshValue(stock, field, q) ==
    IF field = "change" THEN Round2(q.change, 1)
    ELSE IF field = "change_pct" THEN q.change_pct
    ELSE IF field = "price" THEN Round2(q.price, 1)
    ELSE RefreshLevels(stock, q.price)

\* The value get_stock_details assigns to a field from the quote q.
DetailValue(stock, field, q) ==
    IF field = "change" THEN q.change
    ELSE IF field = "change_pct" THEN q.change_pct
    ELSE IF field = "price" THEN q.price
    ELSE DetailLevels(stock.recommendation, q.price)

NoThread == [pc |-> "idle", k |-> 0, q |-> NoStockQuote, w |-> 0]

\* The get_screener_data request reaches its refresh loop (line 280).
ThrScrStart ==
    /\ thr_scr.pc = "idle"
    /\ thr_scr' = [pc |-> "fetch", k |-> 1, q |-> NoStockQuote, w |-> 0]
    /\ UNCHANGED <<_cache, thr_det, thr_base, thr_ret>>
    /\ UNCHANGED <<dash_vars, clock_vars, _last_refresh, lc_vars, scr_vars,
                   det_vars, net_vars, aux_vars>>

\* Lines 281-309 for the entry at position k: the first source with
\* price > 0 gives the quote; without one the loop goes on to the next entry.
ThrScrFetch ==
    /\ thr_scr.pc = "fetch"
    /\ \E q \in ThreadQuotes :
         thr_scr' = IF Priced(q)
                    THEN [thr_scr EXCEPT !.pc = "write", !.q = q, !.w = 1]
                    ELSE IF thr_scr.k < Len(_cache)
                    THEN [thr_scr EXCEPT !.k = @ + 1]
                    ELSE [thr_scr EXCEPT !.pc = "done"]
    /\ UNCHANGED <<_cache, thr_det, thr_base, thr_ret>>
    /\ UNCHANGED <<dash_vars, clock_vars, _last_refresh, lc_vars, scr_vars,
                   det_vars, net_vars, aux_vars>>

\* One assignment of the refresh loop to the entry at position k.
ThrScrWrite ==
    /\ thr_scr.pc = "write"
    /\ LET field == RefreshOrder[thr_scr.w]
       IN  _cache' = WriteField(_cache, thr_scr.k, field,
                                RefreshValue(_cache[thr_scr.k], field, thr_scr.q))
    /\ thr_scr' = IF thr_scr.w < Len(RefreshOrder)
                  THEN [thr_scr EXCEPT !.w = @ + 1]
                  ELSE IF thr_scr.k < Len(_cache)
                  THEN [thr_scr EXCEPT !.pc = "fetch", !.k = @ + 1, !.w = 0]
                  ELSE [thr_scr EXCEPT !.pc = "done", !.w = 0]
    /\ UNCHANGED <<thr_det, thr_base, thr_ret>>
    /\ UNCHANGED <<dash_vars, clock_vars, _last_refresh, lc_vars, scr_vars,
                   det_vars, net_vars, aux_vars>>

\* The get_stock_details request finds its symbol in the cache (lines
\* 356-357).
ThrDetStart ==
    /\ thr_det.pc = "idle"
    /\ \E k \in 1..Len(_cache) :
         thr_det' = [pc |-> "fetch", k |-> k, q |-> NoStockQuote, w |-> 0]
    /\ UNCHANGED <<_cache, thr_scr, thr_base, thr_ret>>
    /\ UNCHANGED <<dash_vars, clock_vars, _last_refresh, lc_vars, scr_vars,
                   det_vars, net_vars, aux_vars>>

\* Lines 362-379: the first source with price > 0 gives the quote; without
\* one the cached entry is returned as it is.
ThrDetFetch ==
    /\ thr_det.pc = "fetch"
    /\ \E q \in ThreadQuotes :
         IF Priced(q)
         THEN /\ thr_det' = [thr_det EXCEPT !.pc = "write", !.q = q, !.w = 1]
              /\ UNCHANGED thr_ret
         ELSE /\ thr_det' = [thr_det EXCEPT !.pc = "done"]
              /\ thr_ret' = Returned(_cache[thr_det.k])
    /\ UNCHANGED <<_cache, thr_scr, thr_base>>
    /\ UNCHANGED <<dash_vars, clock_vars, _last_refresh, lc_vars, scr_vars,
                   det_vars, net_vars, aux_vars>>

\* One assignment of get_stock_details to the cached entry.
ThrDetWrite ==
    /\ thr_det.pc = "write"
    /\ LET field == DetailOrder[thr_det.w]
       IN  _cache' = WriteField(_cache, thr_det.k, field,
                                DetailValue(_cache[thr_det.k], field, thr_det.q))
    /\ thr_det' = IF thr_det.w < Len(DetailOrder)
                  THEN [thr_det EXCEPT !.w = @ + 1]
                  ELSE [thr_det EXCEPT !.pc = "return", !.w = 0]
    /\ UNCHANGED <<thr_scr, thr_base, thr_ret>>
    /\ UNCHANGED <<dash_vars, clock_vars, _last_refresh, lc_vars, scr_vars,
                   det_vars, net_vars, aux_vars>>

\* Line 404: the entry is returned (the dict the cache holds, as it is when
\* the response is built).
ThrDetReturn ==
    /\ thr_det.pc = "return"
    /\ thr_ret' = Returned(_cache[thr_det.k])
    /\ thr_det' = [thr_det EXCEPT !.pc = "done"]
    /\ UNCHANGED <<_cache, thr_scr, thr_base>>
    /\ UNCHANGED <<dash_vars, clock_vars, _last_refresh, lc_vars, scr_vars,
                   det_vars, net_vars, aux_vars>>

-----------------------------------------------------------------------------
(* fetch_option_chain called on its own *)

\* fetch_option_chain(symbol) as a caller sees it; the log keeps the answers
\* the call consumed.
OcCall ==
    /\ Idle
    /\ \E symbol \in OcSymbols, first \in OcHttpResponses,
          home \in HomeOutcomes, second \in OcHttpResponses :
         LET result == fetch_option_chain(symbol, first, home, second)
             retried == Len(result.calls) > 1
         IN  /\ oc_log' = [symbol |-> symbol, first |-> first,
                           home |-> IF retried THEN home ELSE "unused",
                           second |-> IF retried THEN second ELSE NoHttp,
                           calls |-> result.calls, ret |-> result.ret,
                           exc |-> result.exc, returned |-> TRUE]
             /\ nse_session' = SessionAfter(nse_session, result)
    /\ UNCHANGED <<dash_vars, clock_vars, store_vars, lc_vars,
                   scr_vars, det_vars, ext_vars>>

-----------------------------------------------------------------------------
(* fetch_last_close_data called on its own *)

\* Between calls of fetch_last_close_data: an hour or a day.
TickSteps == {3600, 86400}

\* Time passes between calls.
Tick ==
    /\ Idle
    /\ ticks < MaxTicks
    /\ \E d \in TickSteps : now' = now + d
    /\ ticks' = ticks + 1
    /\ UNCHANGED <<dash_vars, store_vars, lc_vars, scr_vars,
                   det_vars, net_vars, ext_vars>>

\* fetch_last_close_data() as a caller of live_data sees it.
LastCloseFetch ==
    /\ Idle
    /\ \E fetched \in LastCloseFetches :
         LastCloseCall(fetch_last_close_data(_last_close_cache,
                                             _last_close_cache_date, now, fetched),
                       fetched)
    /\ UNCHANGED <<dash_vars, clock_vars, store_vars, scr_vars,
                   det_vars, net_vars, ext_vars>>

-----------------------------------------------------------------------------
(* The parallel round of fetch_last_close_data: the thread pool, future by *)
(* future                                                                  *)

\* top_stocks, NIFTY_STOCKS[:200] in the code: distinct symbols, here three.
top_stocks == <<"RELIANCE", "TCS", "INFY">>

\* ThreadPoolExecutor(max_workers=20) in the code; fewer workers than
\* symbols here as there.
max_workers == 2

\* What nse.stock_quote(symbol) can do: answer a quote with priceInfo,
\* answer without it, raise, or never come back (the call carries no
\* timeout).
QuoteOutcomes == {"quote", "empty", "raise", "hang"}

\* fetch_stock_data(symbol) for a call that came back: the dict, or None.
fetch_stock_data(symbol, outcome) ==
    IF outcome = "quote"
    THEN [ok |-> TRUE, data |-> StockData(symbol, 100000, 0, 0, TRUE, 0, 0)]
    ELSE [ok |-> FALSE, data |-> StockData(symbol, 0, 0, 0, FALSE, 0, 0)]

BatchSymbols == { top_stocks[i] : i \in 1..Len(top_stocks) }

Running == { sym \in DOMAIN futures : futures[sym].st = "running" }

pool_rest == <<dash_vars, clock_vars, store_vars, scr_vars, det_vars,
               net_vars, thr_vars, ws_vars, alg_vars, sig_vars>>

\* Lines 134-185: no valid cache, NSELive() and trade_info() answer (or the
\* latter raises, and the call returns []); every symbol is submitted.
BatchSubmit ==
    /\ batch_pc = "idle"
    /\ ~ (_last_close_cache # <<>> /\ _last_close_cache_date = Date(now))
    /\ \E trade_info \in {"ok", "raise"} :
         IF trade_info = "ok"
         THEN /\ batch_pc' = "collect"
              /\ futures' = [sym \in BatchSymbols |->
                                [st |-> "queued", outcome |-> "quote"]]
         ELSE /\ batch_pc' = "done"
              /\ futures' = futures
    /\ stocks_data' = <<>>
    /\ UNCHANGED <<lc_vars, pool_rest>>

\* A free worker takes the oldest queued task and calls nse.stock_quote.
WorkerStart ==
    /\ Cardinality(Running) < max_workers
    /\ \E i \in 1..Len(top_stocks) :
         /\ top_stocks[i] \in DOMAIN futures
         /\ futures[top_stocks[i]].st = "queued"
         /\ \A j \in 1..(i - 1) : futures[top_stocks[j]].st # "queued"
         /\ \E outcome \in QuoteOutcomes :
              futures' = [futures EXCEPT ![top_stocks[i]] =
                             [st |-> "running", outcome |-> outcome]]
    /\ UNCHANGED <<batch_pc, stocks_data, lc_vars, pool_rest>>

\* nse.stock_quote came back; fetch_stock_data returns and the future is
\* complete.
WorkerFinish ==
    /\ \E sym \in Running :
         /\ futures[sym].outcome # "hang"
         /\ futures' = [futures EXCEPT ![sym].st = "finished"]
    /\ UNCHANGED <<batch_pc, stocks_data, lc_vars, pool_rest>>

\* Lines 186-189: as_completed yields a completed future; its result is
\* appended if it is not None.
BatchCollect ==
    /\ batch_pc = "collect"
    /\ \E sym \in DOMAIN futures :
         /\ futures[sym].st = "finished"
         /\ futures' = [futures EXCEPT ![sym].st = "yielded"]
         /\ LET result == fetch_stock_data(sym, futures[sym].outcome)
            IN  stocks_data' = IF result.ok
                               THEN Append(stocks_data, result.data)
                               ELSE stocks_data
    /\ UNCHANGED <<batch_pc, lc_vars, pool_rest>>

\* Lines 195-205: every future was yielded, the executor is shut down, the
\* list is cached if it is not empty, the call returns.
BatchReturn ==
    /\ batch_pc = "collect"
    /\ \A sym \in DOMAIN futures : futures[sym].st = "yielded"
    /\ batch_pc' = "done"
    /\ IF stocks_data # <<>>
       THEN /\ _last_close_cache' = stocks_data
            /\ _last_close_cache_date' = Date(now)
       ELSE UNCHANGED <<_last_close_cache, _last_close_cache_date>>
    /\ UNCHANGED <<futures, stocks_data, lc_log, pool_rest>>

-----------------------------------------------------------------------------
(* The price push: ConnectionManager, price_broadcaster (websocket_manager) *)
(* and the websocket_prices handler (main.py), as coroutines of one event   *)
(* loop: a step runs from one await to the next                             *)

\* The websockets that may connect; each connects at most once.
Clients == {"a", "b"}

\* list.remove(x): the first occurrence is taken out.
Remove(list, x) ==
    SelectSeq(list, LAMBDA y : y # x)

Registered == { active_connections[i] : i \in 1..Len(active_connections) }

\* ConnectionManager.disconnect.
disconnect(list, websocket) ==
    IF \E i \in 1..Len(list) : list[i] = websocket
    THEN Remove(list, websocket)
    ELSE list

\* The clean-up loop of broadcast: disconnect(conn) for every conn of the
\* local disconnected, in order.
RECURSIVE CleanUp(_, _)
CleanUp(list, disconnected) ==
    IF disconnected = <<>> THEN list
    ELSE CleanUp(disconnect(list, Head(disconnected)), Tail(disconnected))

NoBroadcast == [stayed |-> {}, tried |-> {}, failed |-> {}]

\* get_live_prices_sync asks Google Finance for every symbol of all_symbols
\* (seven in the code) and keeps those that answered.
all_symbols == {"NIFTY", "RELIANCE"}

PriceAnswers ==
    [all_symbols -> { r \in GfResponses : r.kind = "error" \/ r.has_pct }]

get_live_prices_sync(answers) ==
    { symbol \in all_symbols : fetch_google_finance_data(answers[symbol]).ok }

\* What the fetch of one price_broadcaster tick can do: deliver prices, or
\* raise an Exception.
TickOutcomes == {"prices", "Exception"}

\* No handler: the exception leaves the loop.
Uncaught(outcome) ==
    FALSE

\* except Exception of price_broadcaster.
Caught(outcome) ==
    outcome = "Exception"

ws_rest == <<dash_vars, clock_vars, store_vars, lc_vars, scr_vars, det_vars,
             net_vars, thr_vars, pool_vars, alg_vars, sig_vars>>

\* price_broadcaster lines 94-104, up to the first await of a send: the
\* fetch; on prices broadcast is entered, which returns at once on an empty
\* list and else starts sending to the first connection.
PbFetch ==
    /\ pb_pc = "fetch"
    /\ \E outcome \in TickOutcomes :
         IF outcome = "prices"
         THEN IF active_connections = <<>>
              THEN /\ pb_pc' = "sleep"
                   /\ pb_last' = "empty"
                   /\ UNCHANGED <<bc_i, bc_conn, bc_disconnected, bc_log>>
              ELSE /\ pb_pc' = "send"
                   /\ pb_last' = "none"
                   /\ bc_i' = 1
                   /\ bc_conn' = active_connections[1]
                   /\ bc_disconnected' = <<>>
                   /\ bc_log' = [stayed |-> Registered, tried |-> {},
                                 failed |-> {}]
         ELSE /\ pb_pc' = IF Caught(outcome) THEN "sleep" ELSE "stopped"
              /\ pb_last' = "raise"
              /\ UNCHANGED <<bc_i, bc_conn, bc_disconnected, bc_log>>
    /\ UNCHANGED <<active_connections, ws_pc, ws_msg, ws_rest>>

\* broadcast lines 37-45: the send to the loop variable ends, well or with
\* an exception; the iterator moves on over the list as it is now, and when
\* it is exhausted the failed connections are disconnected and the tick
\* goes to sleep.
PbSent ==
    /\ pb_pc = "send"
    /\ \E sent \in BOOLEAN :
         LET disconnected == IF sent THEN bc_disconnected
                             ELSE Append(bc_disconnected, bc_conn)
             log == [bc_log EXCEPT
                        !.tried = @ \cup {bc_conn},
                        !.failed = IF sent THEN @ ELSE @ \cup {bc_conn}]
         IN  /\ bc_log' = log
             /\ bc_disconnected' = disconnected
             /\ IF bc_i + 1 <= Len(active_connections)
                THEN /\ bc_i' = bc_i + 1
                     /\ bc_conn' = active_connections[bc_i + 1]
                     /\ UNCHANGED <<pb_pc, pb_last, active_connections>>
                ELSE /\ bc_i' = 0
                     /\ bc_conn' = ""
                     /\ active_connections' =
                            CleanUp(active_connections, disconnected)
                     /\ pb_pc' = "sleep"
                     /\ pb_last' = "sent"
    /\ UNCHANGED <<ws_pc, ws_msg, ws_rest>>

\* price_broadcaster line 106: the sleep is over.
PbSleep ==
    /\ pb_pc = "sleep"
    /\ pb_pc' = "fetch"
    /\ UNCHANGED <<active_connections, pb_last, bc_i, bc_conn,
                   bc_disconnected, bc_log, ws_pc, ws_msg, ws_rest>>

\* websocket_prices line 86: manager.connect - accept, then append; if
\* accept raises the handler ends and nothing was registered.
WsConnect ==
    /\ \E c \in Clients, accepted \in BOOLEAN :
         /\ ws_pc[c] = "new"
         /\ IF accepted
            THEN /\ active_connections' = Append(active_connections, c)
                 /\ ws_pc' = [ws_pc EXCEPT ![c] = "fetch"]
            ELSE /\ active_connections' = active_connections
                 /\ ws_pc' = [ws_pc EXCEPT ![c] = "closed"]
    /\ UNCHANGED <<pb_pc, pb_last, bc_i, bc_conn, bc_disconnected, bc_log,
                   ws_msg, ws_rest>>

\* websocket_prices lines 90-101: the prices come back from the executor
\* and the send of the message begins.
WsFetch ==
    /\ \E c \in Clients, answers \in PriceAnswers :
         /\ ws_pc[c] = "fetch"
         /\ ws_msg' = [ws_msg EXCEPT ![c] = get_live_prices_sync(answers)]
         /\ ws_pc' = [ws_pc EXCEPT ![c] = "send"]
    /\ UNCHANGED <<active_connections, pb_pc, pb_last, bc_i, bc_conn,
                   bc_disconnected, bc_log, ws_rest>>

\* websocket_prices lines 97-108: the send ends; on WebSocketDisconnect or
\* any other exception the client is disconnected and the handler ends.
WsSend ==
    /\ \E c \in Clients, outcome \in {"sent", "WebSocketDisconnect", "Exception"} :
         /\ ws_pc[c] = "send"
         /\ IF outcome = "sent"
            THEN /\ ws_pc' = [ws_pc EXCEPT ![c] = "sleep"]
                 /\ UNCHANGED <<active_connections, bc_log>>
            ELSE /\ ws_pc' = [ws_pc EXCEPT ![c] = "closed"]
                 /\ active_connections' = disconnect(active_connections, c)
                 /\ bc_log' = IF pb_pc = "send"
                              THEN [bc_log EXCEPT !.stayed = @ \ {c}]
                              ELSE bc_log
    /\ UNCHANGED <<pb_pc, pb_last, bc_i, bc_conn, bc_disconnected,
                   ws_msg, ws_rest>>

\* websocket_prices line 103: the sleep is over.
WsSleep ==
    /\ \E c \in Clients :
         /\ ws_pc[c] = "sleep"
         /\ ws_pc' = [ws_pc EXCEPT ![c] = "fetch"]
         /\ ws_msg' = [ws_msg EXCEPT ![c] = {}]
    /\ UNCHANGED <<active_connections, pb_pc, pb_last, bc_i, bc_conn,
                   bc_disconnected, bc_log, ws_rest>>

-----------------------------------------------------------------------------
(* algorithms.py and MarketDataProvider (data_provider.py).  Prices are in  *)
(* 1/100 rupee here, strikes and steps in rupees, OI changes in contracts   *)

\* Rounding with ties away from zero towards plus infinity.
RoundHalfUp(n, d) ==
    (2 * n + d) \div (2 * d)

\* round(n / d) for d > 0 as Python rounds: to the nearest integer, a tie
\* to the even one.
PyRound(n, d) ==
    LET q == n \div d
        r == n - q * d
    IN  IF 2 * r < d THEN q
        ELSE IF 2 * r > d THEN q + 1
        ELSE IF q % 2 = 0 THEN q ELSE q + 1

\* The multiple of step at or below the spot price.
AtmFloor(current_spot_price, step) ==
    (current_spot_price \div (100 * step)) * step

\* round(current_spot_price / step) * step, the spot in 1/100 rupee.
get_atm_strike(current_spot_price, step) ==
    PyRound(current_spot_price, 100 * step) * step

get_relevant_strikes(current_spot_price, step) ==
    LET atm == PyRound(current_spot_price, 100 * step) * step
    IN  [k \in 1..11 |-> atm + (k - 6) * step]

OiSignal(message, status, color) ==
    [message |-> message, status |-> status, color |-> color]

\* The classification with equal positive changes counted as bullish.
TieBullishSignal(call_coi, put_coi) ==
    IF call_coi < 0 /\ put_coi > 0
    THEN OiSignal("Short Covering", "SHORT COVERING", "#00E676")
    ELSE IF call_coi > 0 /\ put_coi < 0
    THEN OiSignal("Long Unwinding", "LONG UNWINDING", "#FF5252")
    ELSE IF call_coi > 0 /\ put_coi > 0
    THEN IF put_coi >= call_coi
         THEN OiSignal("Mild Bullish", "MILD BULLISH", "#69F0AE")
         ELSE OiSignal("Mild Bearish", "MILD BEARISH", "#FF8A80")
    ELSE IF call_coi < 0 /\ put_coi < 0
    THEN OiSignal("Uncertain", "UNCERTAIN", "#9E9E9E")
    ELSE OiSignal("Neutral", "NEUTRAL", "#9E9E9E")

calculate_oi_signal(call_coi, put_coi) ==
    IF call_coi < 0 /\ put_coi > 0
    THEN OiSignal("Short Covering: Call Writers Exiting, Put Writers Entering",
                  "SHORT COVERING", "#00E676")
    ELSE IF call_coi > 0 /\ put_coi < 0
    THEN OiSignal("Long Unwinding: Call Writers Entering, Put Writers Exiting",
                  "LONG UNWINDING", "#FF5252")
    ELSE IF call_coi > 0 /\ put_coi > 0
    THEN IF put_coi > call_coi
         THEN OiSignal("Mild Bullish: Support Building with Put Writing",
                       "MILD BULLISH", "#69F0AE")
         ELSE OiSignal("Mild Bearish: Resistance Building with Call Writing",
                       "MILD BEARISH", "#FF8A80")
    ELSE IF call_coi < 0 /\ put_coi < 0
    THEN OiSignal("Uncertain: Both Sides Unwinding, Expect Volatility",
                  "UNCERTAIN", "#9E9E9E")
    ELSE OiSignal("Neutral: No Significant OI Change",
                  "NEUTRAL", "#9E9E9E")

Sentiment(score, label, color) ==
    [score |-> score, label |-> label, color |-> color]

\* The score with the PCR counted the other way round.
ContrarianScore(pcr, spot_price, vwap, oi_status) ==
    LET raw == 5 + (IF pcr > 120 THEN 0 - 2 ELSE IF pcr < 70 THEN 2 ELSE 0)
                 + (IF spot_price > vwap THEN 2 ELSE 0 - 2)
        score == IF raw > 10 THEN 10 ELSE IF raw < 0 THEN 0 ELSE raw
    IN  Sentiment(score, "NEUTRAL", "#9E9E9E")

\* calculate_sentiment_score; the PCR in 1/100, spot and VWAP in 1/100
\* rupee.
calculate_sentiment_score(pcr, spot_price, vwap, oi_status) ==
    LET s1 == 5 + (IF pcr > 120 THEN 2 ELSE IF pcr < 70 THEN 0 - 2 ELSE 0)
        s2 == s1 + (IF spot_price > vwap THEN 2 ELSE 0 - 2)
        s3 == s2 + (IF oi_status = "SHORT COVERING" THEN 3
                    ELSE IF oi_status = "LONG UNWINDING" THEN 0 - 3
                    ELSE IF oi_status = "MILD BULLISH" THEN 1
                    ELSE IF oi_status = "MILD BEARISH" THEN 0 - 1
                    ELSE 0)
        score == IF s3 > 10 THEN 10 ELSE IF s3 < 0 THEN 0 ELSE s3
    IN  IF score >= 7 THEN Sentiment(score, "STRONG BUY", "#00E676")
        ELSE IF score <= 3 THEN Sentiment(score, "STRONG SELL", "#FF5252")
        ELSE Sentiment(score, "NEUTRAL", "#9E9E9E")

get_bar_color_for_oi(oi_change, is_call) ==
    IF oi_change = 0 THEN "GREY"
    ELSE IF is_call
         THEN IF oi_change < 0 THEN "GREEN" ELSE "RED"
         ELSE IF oi_change > 0 THEN "GREEN" ELSE "RED"

STRIKE_STEPS ==
    [NIFTY |-> 50, BANKNIFTY |-> 100, FINNIFTY |-> 50, MIDCPNIFTY |-> 25]

\* BASE_PRICES of data_provider.py, in 1/100 rupee.
INDEX_BASE_PRICES ==
    [NIFTY |-> 2535000, BANKNIFTY |-> 5380000, FINNIFTY |-> 2450000,
     MIDCPNIFTY |-> 1280000]

Scenarios == {"BULLISH", "BEARISH", "SIDEWAYS", "VOLATILE"}

\* The bounds of random.randint for one strike: near is the test on
\* distance_from_atm of that side (below 2 steps for calls, below 3 steps
\* for puts).
OiRange(scenario, is_call, near) ==
    IF scenario = "BULLISH"
    THEN IF is_call
         THEN IF near THEN <<-80000, 20000>> ELSE <<-30000, 40000>>
         ELSE IF near THEN <<10000, 150000>> ELSE <<-20000, 80000>>
    ELSE IF scenario = "BEARISH"
    THEN IF is_call
         THEN IF near THEN <<20000, 120000>> ELSE <<-10000, 60000>>
         ELSE IF near THEN <<-100000, 10000>> ELSE <<-40000, 30000>>
    ELSE <<-50000, 50000>>

\* What random.randint(lo, hi) draws: "lo", "hi", or "mid" - 0 when the
\* range holds it, else the lower bound plus one.
Draws == {"lo", "mid", "hi"}

RandInt(range, draw) ==
    IF draw = "lo" THEN range[1]
    ELSE IF draw = "hi" THEN range[2]
    ELSE IF range[1] <= 0 /\ 0 <= range[2] THEN 0 ELSE range[1] + 1

Abs(x) == IF x < 0 THEN 0 - x ELSE x

\* _generate_oi_changes; ce_draw and pe_draw say what random.randint draws
\* for the calls and for the puts of every strike.
_generate_oi_changes(scenario, symbol, atm, ce_draw, pe_draw) ==
    LET step == STRIKE_STEPS[symbol]
        strikes == get_relevant_strikes(100 * atm, step)
    IN  [k \in 1..11 |->
            LET strike == strikes[k]
                distance_from_atm == Abs(strike - atm)
                ce_change == RandInt(OiRange(scenario, TRUE,
                                             distance_from_atm < step * 2),
                                     ce_draw)
                pe_change == RandInt(OiRange(scenario, FALSE,
                                             distance_from_atm < step * 3),
                                     pe_draw)
            IN  [strike |-> strike,
                 ce_change |-> ce_change,
                 pe_change |-> pe_change,
                 ce_bar_color |-> get_bar_color_for_oi(ce_change, TRUE),
                 pe_bar_color |-> get_bar_color_for_oi(pe_change, FALSE),
                 is_atm |-> strike = atm]]

\* (trend + noise) / 100 of _generate_price_movement in 1/100 of a percent:
\* the noise is Gaussian, so any value may come out in any scenario.
PctChanges == {-50, 350}

\* _generate_price_movement: the new offset of the symbol, kept within 3 %
\* of the base.
NewOffset(symbol, offset, pct_change) ==
    LET base == INDEX_BASE_PRICES[symbol]
        moved == offset + (base * pct_change) \div 10000
        limit == (base * 3) \div 100
    IN  IF moved > limit THEN limit
        ELSE IF moved < 0 - limit THEN 0 - limit
        ELSE moved

\* The ends of the interval random.uniform draws from.
Ends == {"lo", "hi"}

\* _generate_pcr in 1/100: round(random.uniform(...), 2) at an end of the
\* interval of the scenario.
_generate_pcr(scenario, draw) ==
    IF scenario = "BULLISH" THEN (IF draw = "lo" THEN 100 ELSE 140)
    ELSE IF scenario = "BEARISH" THEN (IF draw = "lo" THEN 60 ELSE 90)
    ELSE (IF draw = "lo" THEN 80 ELSE 120)

\* _generate_vwap in 1/100 rupee: the price moved by -0.3 % or by +0.2 %,
\* the ends of random.uniform(-0.3, 0.2), and rounded to two decimals.
_generate_vwap(current_price, draw) ==
    IF draw = "lo" THEN current_price - RoundDiv(current_price * 3, 1000)
    ELSE current_price + RoundDiv(current_price * 2, 1000)

\* The result of get_oi_details once the spot price is known.
get_oi_details(scenario, symbol, spot_price, ce_draw, pe_draw) ==
    LET step == STRIKE_STEPS[symbol]
        atm == get_atm_strike(spot_price, step)
    IN  [status |-> "success", symbol |-> symbol, atm_strike |-> atm,
         strikes |-> _generate_oi_changes(scenario, symbol, atm,
                                          ce_draw, pe_draw)]

-----------------------------------------------------------------------------
(* The functions of algorithms.py and data_provider called on their own *)

\* Spot prices in 1/100 rupee: ties and non-ties of every step, zero and
\* negative ones, and index levels.
SpotPrices ==
    {-2550, -1250, 0, 50, 1250, 2500, 3750, 2532500, 2536200, 2537500,
     2538000}

Steps == {1, 3, 25, 50, 100}

CoiValues == {-150000, -1, 0, 1, 2, 150000}

NoAlgRet ==
    [op |-> "none", symbol |-> "", spot |-> 0, step |-> 0, call |-> 0,
     put |-> 0, strikes |-> <<>>, atm_strike |-> 0, rows |-> <<>>,
     signal |-> OiSignal("", "", ""), pcr |-> 0, vwap |-> 0,
     oi_status |-> "", sentiment |-> Sentiment(0, "", "")]

MaxMoves == 2

alg_rest == <<dash_vars, clock_vars, store_vars, lc_vars, scr_vars, det_vars,
              net_vars, thr_vars, pool_vars, ws_vars, sig_vars>>

RECURSIVE SumField(_, _)
SumField(rows, field) ==
    IF rows = <<>> THEN 0
    ELSE Head(rows)[field] + SumField(Tail(rows), field)

StrikesCall ==
    /\ alg_ret = NoAlgRet
    /\ \E spot \in SpotPrices, step \in Steps :
         alg_ret' = [NoAlgRet EXCEPT
                        !.op = "get_relevant_strikes",
                        !.spot = spot, !.step = step,
                        !.strikes = get_relevant_strikes(spot, step)]
    /\ UNCHANGED <<_scenario, _price_offset, moves, alg_rest>>

SignalCall ==
    /\ alg_ret = NoAlgRet
    /\ \E call_coi \in CoiValues, put_coi \in CoiValues :
         alg_ret' = [NoAlgRet EXCEPT
                        !.op = "calculate_oi_signal",
                        !.call = call_coi, !.put = put_coi,
                        !.signal = calculate_oi_signal(call_coi, put_coi)]
    /\ UNCHANGED <<_scenario, _price_offset, moves, alg_rest>>

\* get_oi_details(symbol, spot_price) with a spot price.
OiDetailsCall ==
    /\ alg_ret = NoAlgRet
    /\ \E symbol \in DOMAIN STRIKE_STEPS, spot_price \in SpotPrices,
          ce_draw \in Draws, pe_draw \in Draws :
         LET ret == get_oi_details(_scenario, symbol, spot_price,
                                   ce_draw, pe_draw)
         IN  alg_ret' = [NoAlgRet EXCEPT
                            !.op = "get_oi_details", !.symbol = symbol,
                            !.spot = spot_price,
                            !.step = STRIKE_STEPS[symbol],
                            !.atm_strike = ret.atm_strike,
                            !.rows = ret.strikes]
    /\ UNCHANGED <<_scenario, _price_offset, moves, alg_rest>>

\* get_oi_details(symbol): the spot price comes from
\* _generate_price_movement, which moves the offset of the symbol.
OiDetailsMove ==
    /\ alg_ret = NoAlgRet
    /\ moves < MaxMoves
    /\ \E symbol \in DOMAIN STRIKE_STEPS, pct_change \in PctChanges,
          ce_draw \in Draws, pe_draw \in Draws :
         LET offset == NewOffset(symbol, _price_offset[symbol], pct_change)
             spot_price == INDEX_BASE_PRICES[symbol] + offset
             ret == get_oi_details(_scenario, symbol, spot_price,
                                   ce_draw, pe_draw)
         IN  /\ _price_offset' = [_price_offset EXCEPT ![symbol] = offset]
             /\ alg_ret' = [NoAlgRet EXCEPT
                               !.op = "get_oi_details", !.symbol = symbol,
                               !.spot = spot_price,
                               !.step = STRIKE_STEPS[symbol],
                               !.atm_strike = ret.atm_strike,
                               !.rows = ret.strikes]
    /\ moves' = moves + 1
    /\ UNCHANGED <<_scenario, alg_rest>>

\* get_dashboard_data(symbol): a scenario is drawn, the price moves, the OI
\* rows are generated and their totals classified.  Of the returned dict
\* the OI alert is kept.
DashboardData ==
    /\ alg_ret = NoAlgRet
    /\ moves < MaxMoves
    /\ \E scenario \in Scenarios, symbol \in DOMAIN STRIKE_STEPS,
          pct_change \in PctChanges, ce_draw \in Draws, pe_draw \in Draws :
         LET offset == NewOffset(symbol, _price_offset[symbol], pct_change)
             current_price == INDEX_BASE_PRICES[symbol] + offset
             atm == get_atm_strike(current_price, STRIKE_STEPS[symbol])
             oi_data == _generate_oi_changes(scenario, symbol, atm,
                                             ce_draw, pe_draw)
             total_ce_change == SumField(oi_data, "ce_change")
             total_pe_change == SumField(oi_data, "pe_change")
         IN  /\ _scenario' = scenario
             /\ _price_offset' = [_price_offset EXCEPT ![symbol] = offset]
             /\ alg_ret' = [NoAlgRet EXCEPT
                               !.op = "get_dashboard_data",
                               !.symbol = symbol, !.spot = current_price,
                               !.step = STRIKE_STEPS[symbol],
                               !.call = total_ce_change,
                               !.put = total_pe_change,
                               !.signal = calculate_oi_signal(total_ce_change,
                                                              total_pe_change)]
    /\ moves' = moves + 1
    /\ UNCHANGED alg_rest

\* get_dashboard_data(symbol) once more, with the draws of _generate_vwap
\* and _generate_pcr: of the returned dict the PCR, the VWAP and the
\* sentiment are kept.
DashboardSentiment ==
    /\ alg_ret = NoAlgRet
    /\ moves < MaxMoves
    /\ \E scenario \in Scenarios, symbol \in DOMAIN STRIKE_STEPS,
          pct_change \in PctChanges, ce_draw \in Draws, pe_draw \in Draws,
          vwap_draw \in Ends, pcr_draw \in Ends :
         LET offset == NewOffset(symbol, _price_offset[symbol], pct_change)
             current_price == INDEX_BASE_PRICES[symbol] + offset
             vwap == _generate_vwap(current_price, vwap_draw)
             pcr == _generate_pcr(scenario, pcr_draw)
             atm == get_atm_strike(current_price, STRIKE_STEPS[symbol])
             oi_data == _generate_oi_changes(scenario, symbol, atm,
                                             ce_draw, pe_draw)
             oi_status == calculate_oi_signal(SumField(oi_data, "ce_change"),
                                              SumField(oi_data, "pe_change")).status
         IN  /\ _scenario' = scenario
             /\ _price_offset' = [_price_offset EXCEPT ![symbol] = offset]
             /\ alg_ret' = [NoAlgRet EXCEPT
                               !.op = "get_dashboard_data",
                               !.symbol = symbol, !.spot = current_price,
                               !.pcr = pcr, !.vwap = vwap,
                               !.oi_status = oi_status,
                               !.sentiment = calculate_sentiment_score(
                                                 pcr, current_price, vwap,
                                                 oi_status)]
    /\ moves' = moves + 1
    /\ UNCHANGED alg_rest

\* PCR values in 1/100: around both thresholds.
PcrValues == {0, 69, 70, 100, 120, 121, 250}

\* VWAP values in 1/100 rupee, against the spot prices.
VwapValues == {2500, 2536100, 2536200, 2536300}

OiStatuses ==
    {"SHORT COVERING", "LONG UNWINDING", "MILD BULLISH", "MILD BEARISH",
     "UNCERTAIN", "NEUTRAL"}

SentimentCall ==
    /\ alg_ret = NoAlgRet
    /\ \E pcr \in PcrValues, spot_price \in SpotPrices, vwap \in VwapValues,
          oi_status \in OiStatuses :
         alg_ret' = [NoAlgRet EXCEPT
                        !.op = "calculate_sentiment_score",
                        !.pcr = pcr, !.spot = spot_price, !.vwap = vwap,
                        !.oi_status = oi_status,
                        !.sentiment = calculate_sentiment_score(
                                          pcr, spot_price, vwap, oi_status)]
    /\ UNCHANGED <<_scenario, _price_offset, moves, alg_rest>>

\* The caller has taken the result.
AlgReturn ==
    /\ alg_ret # NoAlgRet
    /\ alg_ret' = NoAlgRet
    /\ UNCHANGED <<_scenario, _price_offset, moves, alg_rest>>

-----------------------------------------------------------------------------
(* The signal functions of live_data.py and _process_stock called on their *)
(* own                                                                     *)

\* No call is open.
NoSigRet == [op |-> "none"]

sig_rest == <<dash_vars, clock_vars, store_vars, lc_vars, scr_vars, det_vars,
              net_vars, thr_vars, pool_vars, ws_vars, alg_vars>>

\* Day moves of a stock: change in mills, change_pct in 1/100 %.
DayMoves ==
    { [change |-> 2000, change_pct |-> 200],
      [change |-> 0, change_pct |-> 0],
      [change |-> -4950, change_pct |-> -450] }

\* 52-week ranges in mills: a wide one, a narrow one, and the zeros the
\* adapters write for a missing yearHigh / yearLow.
YearRanges ==
    { [high |-> 120000, low |-> 80000],
      [high |-> 110000, low |-> 100000],
      [high |-> 0, low |-> 0] }

\* The raw dicts handed to _process_stock.
RawStocks ==
    { StockData("RELIANCE", price, m.change, m.change_pct, has_52, r.high, r.low) :
        price \in {0, 100000, 110000}, m \in DayMoves, has_52 \in BOOLEAN,
        r \in YearRanges }

\* _process_stock is called twice with the same stock_data; each call makes
\* its own draws of random.uniform.
ProcessStockTwice ==
    /\ sig_ret.op = "none"
    /\ \E stock_data \in RawStocks, u1 \in RsiDraws, v1 \in VolumeDraws,
          u2 \in RsiDraws, v2 \in VolumeDraws :
         sig_ret' = [op |-> "_process_stock", stock_data |-> stock_data,
                     first |-> _process_stock(stock_data, u1, v1),
                     second |-> _process_stock(stock_data, u2, v2)]
    /\ UNCHANGED sig_rest

\* Rows of the equity-stockIndices answer, with and without yearHigh /
\* yearLow.
SigItems ==
    { Item("RELIANCE", price, m.change, m.change_pct, has_year,
           IF has_year THEN 120000 ELSE 0, IF has_year THEN 80000 ELSE 0) :
        price \in {100000, 110000}, m \in DayMoves, has_year \in BOOLEAN }

\* One row goes through the adapter (fetch_all_equity_stocks,
\* fetch_nifty50_stocks) and then through _process_stock.
AdaptedProcess ==
    /\ sig_ret.op = "none"
    /\ \E item \in SigItems, u \in RsiDraws, v \in VolumeDraws :
         sig_ret' = [op |-> "adapter", item |-> item,
                     stock_data |-> StockFromItem(item),
                     ret |-> _process_stock(StockFromItem(item), u, v)]
    /\ UNCHANGED sig_rest

\* calculate_rsi, the result in tenths (50 is 500, 100 is 1000).  The lists
\* gains and losses of lines 443-445, summed over their last `period` items;
\* avg_gain / avg_loss is the quotient of the two sums, and
\* 100 - 100 / (1 + rs) is 100 * gain / (gain + loss), rounded to one decimal
\* by round(rsi, 1).
RECURSIVE SumLast(_, _)
SumLast(list, n) ==
    IF n = 0 \/ list = <<>> THEN 0
    ELSE list[Len(list)] + SumLast(SubSeq(list, 1, Len(list) - 1), n - 1)

\* The same with all deltas averaged, not the trailing ones.
RsiWholeSeries(prices, period) ==
    IF Len(prices) < period + 1 THEN 500
    ELSE LET deltas == [i \in 1..(Len(prices) - 1) |-> prices[i + 1] - prices[i]]
             gains == [i \in DOMAIN deltas |-> IF deltas[i] > 0 THEN deltas[i] ELSE 0]
             losses == [i \in DOMAIN deltas |-> IF deltas[i] < 0 THEN 0 - deltas[i] ELSE 0]
             gain == SumLast(gains, Len(gains))
             loss == SumLast(losses, Len(losses))
         IN  IF loss = 0 THEN 1000
             ELSE PyRound(1000 * gain, gain + loss)

calculate_rsi(prices, period) ==
    IF Len(prices) < period + 1 THEN 500
    ELSE LET deltas == [i \in 1..(Len(prices) - 1) |-> prices[i + 1] - prices[i]]
             gains == [i \in DOMAIN deltas |-> IF deltas[i] > 0 THEN deltas[i] ELSE 0]
             losses == [i \in DOMAIN deltas |-> IF deltas[i] < 0 THEN 0 - deltas[i] ELSE 0]
             gain == SumLast(gains, period)
             loss == SumLast(losses, period)
         IN  IF loss = 0 THEN 1000
             ELSE PyRound(1000 * gain, gain + loss)

\* Price lists of up to MaxPrices prices, in rupees, and the periods: the
\* number of deltas averaged, at least one.
MaxPrices == 4

MaxPeriod == 3

RsiPrices == {10, 11, 13}

RECURSIVE ListsOf(_)
ListsOf(n) ==
    IF n = 0 THEN {<<>>}
    ELSE {Append(list, price) : list \in ListsOf(n - 1), price \in RsiPrices}

PriceLists == UNION { ListsOf(n) : n \in 0..MaxPrices }

RsiCall ==
    /\ sig_ret.op = "none"
    /\ \E prices \in PriceLists, period \in 1..MaxPeriod :
         sig_ret' = [op |-> "calculate_rsi", prices |-> prices,
                     period |-> period, ret |-> calculate_rsi(prices, period)]
    /\ UNCHANGED sig_rest

\* Prices and 52-week ranges in mills for calculate_fibonacci_levels: the
\* levels of the range 80..120, prices above and below it, empty ranges, and
\* amounts with a third decimal (100.009, and 120.012 / 80.008, which are
\* 100.01 * 1.2 and 100.01 * 0.8).  No level of these ranges is a tie of
\* round(..., 2).
FibPrices ==
    {0, 80000, 88550, 88560, 95280, 100000, 100009, 104720, 107640, 110550,
     110560, 120000, 130000}

FibRanges ==
    { [high |-> 120000, low |-> 80000],
      [high |-> 110000, low |-> 100000],
      [high |-> 100009, low |-> 100000],
      [high |-> 120012, low |-> 80008],
      [high |-> 100000, low |-> 100000],
      [high |-> 0, low |-> 0] }

FibCall ==
    /\ sig_ret.op = "none"
    /\ \E price \in FibPrices, r \in FibRanges :
         sig_ret' = [op |-> "calculate_fibonacci_levels", price |-> price,
                     high_52 |-> r.high, low_52 |-> r.low,
                     ret |-> calculate_fibonacci_levels(price, r.high, r.low)]
    /\ UNCHANGED sig_rest

\* date.weekday() of the Gregorian calendar: 0 is Monday, 6 is Sunday.
MonthShift == <<0, 3, 2, 5, 0, 3, 5, 1, 4, 6, 2, 4>>

Weekday(year, month, day) ==
    LET y == IF month < 3 THEN year - 1 ELSE year
        sunday0 == (y + (y \div 4) - (y \div 100) + (y \div 400)
                    + MonthShift[month] + day) % 7
    IN  (sunday0 + 6) % 7

\* A reading of the clock: the date and the time of day in seconds.
Clock(year, month, day, seconds) ==
    [year |-> year, month |-> month, day |-> day,
     weekday |-> Weekday(year, month, day), seconds |-> seconds]

\* dt_time(9, 15) and dt_time(15, 30) in seconds of the day.
MarketOpenTime == 33300

MarketCloseTime == 55800

\* The market status check of get_live_dashboard_data (lines 1000-1006).
LiveMarketActive(t) ==
    LET is_weekend == t.weekday >= 5
        is_budget_day == t.day = 1 /\ t.month = 2
        is_open_time == MarketOpenTime <= t.seconds /\ t.seconds <= MarketCloseTime
    IN  (~is_weekend \/ is_budget_day) /\ is_open_time

\* datetime(2026, 2, 1).date() of MarketDataProvider._is_market_open.
BudgetDay(t) == t.year = 2026 /\ t.month = 2 /\ t.day = 1

\* MarketDataProvider._is_market_open.
_is_market_open(t) ==
    IF t.weekday > 4 /\ ~BudgetDay(t) THEN FALSE
    ELSE MarketOpenTime <= t.seconds /\ t.seconds <= MarketCloseTime

\* Clock readings: week days and week ends, 1 February of three years (a
\* Saturday in 2025, a Sunday in 2026, a Monday in 2027), and the times
\* around both bounds of the session.
ClockYears == {2025, 2026, 2027}

ClockMonths == {1, 2, 11}

ClockDays == {1, 2}

ClockSeconds == {0, 33299, 33300, 43200, 55800, 55801, 72000}

\* Both checks read the same clock.
MarketCheck ==
    /\ sig_ret.op = "none"
    /\ \E year \in ClockYears, month \in ClockMonths, day \in ClockDays,
          seconds \in ClockSeconds :
         LET t == Clock(year, month, day, seconds)
         IN  sig_ret' = [op |-> "market_status", t |-> t,
                         live |-> LiveMarketActive(t),
                         provider |-> _is_market_open(t)]
    /\ UNCHANGED sig_rest

\* The caller has taken the result.
SigReturn ==
    /\ sig_ret.op # "none"
    /\ sig_ret' = NoSigRet
    /\ UNCHANGED sig_rest

-----------------------------------------------------------------------------

(* Specifications *)

ClockInit == now = 0 /\ ticks = 0

StoreInit == _cache = <<>> /\ _last_refresh = Never

LastCloseInit ==
    /\ _last_close_cache = <<>>
    /\ _last_close_cache_date = Never
    /\ lc_log = [ret |-> <<>>, upstream |-> FALSE, fetched |-> <<>>, flip |-> 0]

ScrInit ==
    /\ scr_pc = "idle"
    /\ filter_type = ""
    /\ all_stocks = <<>>
    /\ data_source = DataSource("UNKNOWN")
    /\ filtered_stocks = <<>>
    /\ scr_i = 1
    /\ updated = [mc |-> 0, gf |-> 0]
    /\ scr_ret = NoScrRet
    /\ scr_log = NoScrLog
    /\ scr_prev = NoScrPrev

DetInit ==
    /\ det_pc = "idle"
    /\ det_symbol = ""
    /\ det_k = 0
    /\ det_in = NoDetIn
    /\ det_calls = <<>>
    /\ det_ret = [returned |-> FALSE, stock |-> NoEntry]

\* The process after import: nothing cached, no request under way.
\* live_data was imported: _init_session() has fetched the home page once
\* (line 43); fetch_option_chain has not been called.
NetInit == nse_session = {"import"} /\ oc_log = NoOcLog

\* No request is in the thread pool.
ThrInit ==
    /\ thr_scr = NoThread
    /\ thr_det = NoThread
    /\ thr_base = <<>>
    /\ thr_ret = [returned |-> FALSE, stock |-> NoEntry]

\* fetch_last_close_data is not running.
PoolInit ==
    /\ batch_pc = "idle"
    /\ futures = [sym \in {} |-> 0]
    /\ stocks_data = <<>>

\* No client has connected; price_broadcaster is about to fetch.
WsInit ==
    /\ active_connections = <<>>
    /\ pb_pc = "fetch"
    /\ pb_last = "none"
    /\ bc_i = 0
    /\ bc_conn = ""
    /\ bc_disconnected = <<>>
    /\ bc_log = NoBroadcast
    /\ ws_pc = [c \in Clients |-> "new"]
    /\ ws_msg = [c \in Clients |-> {}]

\* data_provider = MarketDataProvider(): no offset yet, scenario BULLISH.
AlgInit ==
    /\ _scenario = "BULLISH"
    /\ _price_offset = [symbol \in DOMAIN STRIKE_STEPS |-> 0]
    /\ moves = 0
    /\ alg_ret = NoAlgRet

SigInit == sig_ret = NoSigRet

AuxInit == PoolInit /\ WsInit /\ AlgInit /\ SigInit

Init ==
    /\ DashInit /\ ClockInit /\ StoreInit /\ LastCloseInit /\ ScrInit /\ DetInit
    /\ NetInit /\ ThrInit /\ AuxInit

SpecDash == Init /\ [][DashNext]_vars

ScrNext ==
    \/ ScrStart
    \/ ScrLive
    \/ ScrCached
    \/ ScrLastClose
    \/ ScrMock
    \/ ScrFilter
    \/ ScrRefresh
    \/ ScrReturn

SpecScreener == Init /\ [][ScrNext]_vars

LastCloseNext ==
    \/ LastCloseFetch
    \/ Tick

SpecLastClose == Init /\ [][LastCloseNext]_vars

OptionNext == OcCall

SpecOption == Init /\ [][OptionNext]_vars

\* The caches get_stock_details is studied on: the empty one of a fresh
\* process, and one left by a LIVE get_screener_data call.
DetCaches ==
    { <<>> } \cup
    { ProcessAll(raws, 0, v) : raws \in BulkFetches \ {<<>>}, v \in VolumeDraws }

DetailsInit ==
    /\ DashInit /\ ClockInit /\ LastCloseInit /\ ScrInit /\ DetInit
    /\ _cache \in DetCaches
    /\ _last_refresh = IF _cache = <<>> THEN Never ELSE 0
    /\ nse_session = IF _cache = <<>> THEN {"import"} ELSE {"import", "call"}
    /\ oc_log = NoOcLog
    /\ ThrInit /\ AuxInit

DetNext ==
    \/ DetStart
    \/ DetMoneycontrol
    \/ DetGoogle
    \/ DetNseQuote
    \/ DetHistorical

SpecDetails == DetailsInit /\ [][DetNext]_vars

\* The two requests start on a cache that a LIVE get_screener_data call has
\* left.
ThreadsInit ==
    /\ DashInit /\ ClockInit /\ LastCloseInit /\ ScrInit /\ DetInit
    /\ _cache \in DetCaches \ {<<>>}
    /\ _last_refresh = 0
    /\ nse_session = {"import", "call"}
    /\ oc_log = NoOcLog
    /\ thr_scr = NoThread
    /\ thr_det = NoThread
    /\ thr_base = _cache
    /\ thr_ret = [returned |-> FALSE, stock |-> NoEntry]
    /\ AuxInit

ThreadsNext ==
    \/ ThrScrStart
    \/ ThrScrFetch
    \/ ThrScrWrite
    \/ ThrDetStart
    \/ ThrDetFetch
    \/ ThrDetWrite
    \/ ThrDetReturn

SpecThreads == ThreadsInit /\ [][ThreadsNext]_vars

BatchNext ==
    \/ BatchSubmit
    \/ WorkerStart
    \/ WorkerFinish
    \/ BatchCollect
    \/ BatchReturn

\* Workers and the calling thread run whenever they can; a call to
\* nse.stock_quote that does not come back is the only thing that waits.
BatchFairness ==
    /\ WF_vars(WorkerStart)
    /\ WF_vars(WorkerFinish)
    /\ WF_vars(BatchCollect)
    /\ WF_vars(BatchReturn)

SpecBatch == Init /\ [][BatchNext]_vars /\ BatchFairness

PushNext ==
    \/ PbFetch
    \/ PbSent
    \/ PbSleep
    \/ WsConnect
    \/ WsFetch
    \/ WsSend
    \/ WsSleep

\* The event loop resumes price_broadcaster whenever what it awaits is
\* over: the executor answers, a send ends, the sleep runs out.
PushFairness ==
    /\ WF_vars(PbFetch)
    /\ WF_vars(PbSent)
    /\ WF_vars(PbSleep)

SpecPush == Init /\ [][PushNext]_vars /\ PushFairness

OiNext ==
    \/ StrikesCall
    \/ SignalCall
    \/ OiDetailsCall
    \/ OiDetailsMove
    \/ DashboardData
    \/ AlgReturn

SpecOi == Init /\ [][OiNext]_vars

SentimentNext ==
    \/ SentimentCall
    \/ AlgReturn

SpecSentiment == Init /\ [][SentimentNext]_vars

SigNext ==
    \/ ProcessStockTwice
    \/ AdaptedProcess
    \/ RsiCall
    \/ FibCall
    \/ MarketCheck
    \/ SigReturn

SpecSignals == Init /\ [][SigNext]_vars

\* Dashboard snapshots of both builders.  main.py serves a request from
\* get_live_dashboard_data and turns to data_provider.get_dashboard_data only
\* in its place (lines 152-161); the two share no variable.  A run follows
\* one of them: the requests of the live builder, or, with dash_pc "unused",
\* the calls of the provider.
SnapshotInit ==
    /\ dash_pc \in {"idle", "unused"}
    /\ dash_symbol = ""
    /\ dash_t = Triple(0, 0, 0)
    /\ dash_in = NoDashIn
    /\ dash_calls = <<>>
    /\ dash_ret = NoResponse
    /\ ClockInit /\ StoreInit /\ LastCloseInit /\ ScrInit /\ DetInit
    /\ NetInit /\ ThrInit /\ AuxInit

ProviderSnapshot == dash_pc = "unused" /\ DashboardSentiment

SnapshotNext ==
    \/ DashNext
    \/ ProviderSnapshot
    \/ AlgReturn

SpecSnapshot == SnapshotInit /\ [][SnapshotNext]_vars

-----------------------------------------------------------------------------
(* Claims about get_live_dashboard_data *)

\* The i-th source answered this request with price > 0.
DashSuccess(i) == dash_in[Sources[i]].ok /\ dash_in[Sources[i]].price > 0

\* The sources are invoked in priority order, each only after all before it.
DashOrdered == dash_calls = SubSeq(Sources, 1, Len(dash_calls))

\* No source is invoked after one that answered with price > 0, and the next
\* one is invoked after every one that did not.
DashShortCircuit ==
    /\ \A i \in 1..Len(dash_calls) : DashSuccess(i) => Len(dash_calls) = i
    /\ (\A i \in 1..Len(dash_calls) : ~DashSuccess(i)) => Len(dash_calls) = 4

\* C1: index price resolution is first-success-wins: the sources are tried in
\* the order Moneycontrol, Google Finance, Yahoo Finance, NSE library; the
\* first one answering with price > 0 supplies price, change and change_pct of
\* the snapshot and no lower-priority source is invoked after it.
C1_FirstSuccessWins ==
    dash_pc = "done" =>
        /\ DashOrdered
        /\ DashShortCircuit
        /\ \A i \in 1..Len(dash_calls) :
              DashSuccess(i) =>
                  /\ dash_ret.price = dash_in[Sources[i]].price
                  /\ dash_ret.price_change = dash_in[Sources[i]].change
                  /\ dash_ret.price_change_pct = dash_in[Sources[i]].change_pct

\* C2: when no index price source answers with price > 0 the handler still
\* returns a snapshot, and its price, price_change and price_change_pct are 0.
C2_AllFailedZeroSnapshot ==
    (dash_pc = "done" /\ \A i \in 1..4 : ~DashSuccess(i)) =>
        /\ dash_ret.status = "success"
        /\ dash_ret.price = 0
        /\ dash_ret.price_change = 0
        /\ dash_ret.price_change_pct = 0

-----------------------------------------------------------------------------
(* Claims about get_screener_data *)

Tiers == <<"LIVE", "CACHED", "LAST CLOSE", "MOCK">>

\* The tier a data_source names; the refreshed form names LIVE.
TierNamed(ds) == IF ds.text = "LIVE(MC:{}+GF:{})" THEN "LIVE" ELSE ds.text

\* The symbols and prices of the returned entries.
ReturnedPrices ==
    [i \in 1..Len(scr_ret.stocks) |->
       <<scr_ret.stocks[i].symbol, scr_ret.stocks[i].price>>]

\* C3: of two get_screener_data calls less than 60 s apart exactly one
\* invokes the bulk universe fetch, and the second returns the entries (the
\* same symbols at the same prices) the first returned.
C3_OneBulkFetchPerMinute ==
    (scr_pc = "done" /\ scr_prev.valid /\ scr_ret.t - scr_prev.t < _cache_duration) =>
        /\ scr_prev.fetches + scr_log.fetches = 1
        /\ ReturnedPrices = scr_prev.stocks

\* C4: the tiers are tried in the order LIVE, CACHED, LAST CLOSE, MOCK, a
\* lower one only when every higher one gave no entry, and the data_source
\* returned names the tier that produced the entries, for every filter and
\* every outcome of the price refresh.
C4_TierOrderAndName ==
    scr_pc = "done" =>
        /\ Append(scr_log.empty, scr_log.tier)
             = SubSeq(Tiers, 1, Len(scr_log.empty) + 1)
        /\ TierNamed(scr_ret.data_source) = scr_log.tier

\* The three price levels of an entry.
LevelTriple(l) == <<l.entry, l.target, l.stoploss>>

\* trading_levels is computed from the entry's price and recommendation (by
\* the live or by the mock formula), for HOLD all three levels are the
\* price, and the entry level is within 2% of the price.
LevelsFromPrice(e) ==
    /\ e.recommendation \in (BuyTiers \cup SellTiers) =>
          LevelTriple(e.trading_levels) \in
              { LevelTriple(ProcessLevels(e.price, e.recommendation)),
                LevelTriple(MockLevels(e.price, e.recommendation)) }
    /\ e.recommendation = "HOLD" =>
          LevelTriple(e.trading_levels) = <<e.price, e.price, e.price>>
    /\ (e.trading_levels.entry - e.price) * 50 <= e.price
    /\ (e.price - e.trading_levels.entry) * 50 <= e.price

\* C5: in every entry returned by get_screener_data or get_stock_details the
\* trading_levels are those computed from the entry's current price and its
\* recommendation, also after the refresh overwrote the price and also for
\* HOLD (entry = target = stoploss = price); the entry level is within 2% of
\* the returned price.
C5_LevelsFromCurrentPrice ==
    /\ scr_pc = "done" =>
          \A i \in 1..Len(scr_ret.stocks) : LevelsFromPrice(scr_ret.stocks[i])
    /\ (det_pc = "done" /\ det_ret.stock.ok) => LevelsFromPrice(det_ret.stock)

\* C6: every returned entry, from whichever tier, has a score in 0..100 and
\* the recommendation the thresholds 70 / 55 / 45 / 30 give for that score.
C6_ScoreFixesRecommendation ==
    scr_pc = "done" =>
        \A i \in 1..Len(scr_ret.stocks) :
            /\ scr_ret.stocks[i].score \in 0..100
            /\ scr_ret.stocks[i].recommendation
                 = Recommendation(scr_ret.stocks[i].score)

\* C7: for every filter and tier the summary counts the full unfiltered set:
\* total is the number of all entries, buy / sell / hold count all entries by
\* recommendation, total is their sum, and the summary depends on the full
\* set only, not on the filter; the full set is the list the screener keeps.
C7_SummaryOverFullSet ==
    scr_pc = "done" =>
        LET n == Len(all_stocks)
            rec == [i \in 1..n |-> all_stocks[i].recommendation]
        IN  /\ scr_ret.summary.total = n
            /\ scr_ret.summary.buy_signals
                 = Cardinality({i \in 1..n : rec[i] \in BuyTiers})
            /\ scr_ret.summary.sell_signals
                 = Cardinality({i \in 1..n : rec[i] \in SellTiers})
            /\ scr_ret.summary.hold_signals
                 = Cardinality({i \in 1..n : rec[i] = "HOLD"})
            /\ scr_ret.summary.total
                 = scr_ret.summary.buy_signals + scr_ret.summary.sell_signals
                   + scr_ret.summary.hold_signals
            /\ all_stocks = _cache

\* A filtered response that shows fewer entries than the summary counts, with
\* buy, sell or hold entries left out.
C7_Witness ==
    /\ scr_pc = "done"
    /\ scr_ret.filter = "buy"
    /\ Len(scr_ret.stocks) = 1
    /\ scr_ret.summary.total = 2
    /\ scr_ret.summary.hold_signals = 1

\* C8: a cache entry is valid only while now - timestamp < 60: _should_refresh
\* is true for every elapsed time of 60 s or more, also beyond a day, and
\* CACHED entries are returned only while younger than 60 s.
C8_CacheValidOnlyWithinTTL ==
    /\ (_last_refresh # Never /\ now - _last_refresh >= _cache_duration) =>
          _should_refresh(_last_refresh, now)
    /\ (scr_pc = "done" /\ scr_log.tier = "CACHED" /\ scr_log.cache_age # Never) =>
          scr_log.cache_age < _cache_duration

-----------------------------------------------------------------------------
(* Claims about fetch_last_close_data *)

\* C9: the last-close cache is valid until the calendar date changes: a call
\* returns the stored list without asking upstream exactly when a non-empty
\* list was stored on the same date; otherwise (also on the first call of a
\* new date) it asks upstream, a non-empty answer is returned and stored with
\* today's date, and an empty or failed one returns the empty list and
\* leaves the stored list and its date as they were.
C9_LastCloseValidForTheDay ==
    [][ lc_log'.flip # lc_log.flip =>
          LET hit == /\ _last_close_cache # <<>>
                     /\ _last_close_cache_date = Date(now)
          IN  /\ lc_log'.upstream = ~hit
              /\ hit => /\ lc_log'.ret = _last_close_cache
                        /\ UNCHANGED <<_last_close_cache, _last_close_cache_date>>
              /\ (~hit /\ lc_log'.fetched # <<>>) =>
                     /\ lc_log'.ret = lc_log'.fetched
                     /\ _last_close_cache' = lc_log'.fetched
                     /\ _last_close_cache_date' = Date(now)
              /\ (~hit /\ lc_log'.fetched = <<>>) =>
                     /\ lc_log'.ret = <<>>
                     /\ UNCHANGED <<_last_close_cache, _last_close_cache_date>>
      ]_vars

\* On a later day: a failed fetch has left the list stored the day before in
\* place (the date has changed, upstream was asked and gave nothing).
C9_Witness ==
    /\ lc_log.upstream
    /\ lc_log.ret = <<>>
    /\ _last_close_cache # <<>>
    /\ _last_close_cache_date # Never
    /\ _last_close_cache_date < Date(now)

-----------------------------------------------------------------------------
(* Claims about get_stock_details *)

\* The sources a lookup of det_symbol may use, in priority order: Moneycontrol
\* only with an id.
Eligible ==
    IF det_symbol \in MC_STOCK_IDS THEN StockSources
    ELSE SubSeq(StockSources, 2, 4)

\* The answer with price > 0 of the highest priority.
NonePriced == \A i \in 1..4 : ~Priced(det_in[StockSources[i]])

Winner ==
    det_in[StockSources[CHOOSE i \in 1..4 :
                          /\ Priced(det_in[StockSources[i]])
                          /\ \A j \in 1..(i - 1) : ~Priced(det_in[StockSources[j]])]]

-----------------------------------------------------------------------------
(* Claims about price 0 as the "no usable data" sentinel *)

\* What a snapshot says when no signal was derived: the defaults of line 980
\* and no bullish VWAP comparison.
DashNoSignal(r) ==
    /\ r.vwap_value = 0
    /\ ~r.is_bullish
    /\ r.score = 5
    /\ r.label = "NEUTRAL"

\* C11: no signal is computed on a quote with price 0: no entry returned by
\* get_screener_data or get_stock_details, and no cached entry, has
\* price <= 0, and a snapshot of get_live_dashboard_data carries a VWAP
\* comparison and a sentiment derived from data only if its price is > 0.
C11_NoSignalOnZeroPrice ==
    /\ scr_pc = "done" =>
          \A i \in 1..Len(scr_ret.stocks) : scr_ret.stocks[i].price > 0
    /\ (det_pc = "done" /\ det_ret.stock.ok) => det_ret.stock.price > 0
    /\ \A i \in 1..Len(_cache) : _cache[i].price > 0
    /\ (dash_pc = "done" /\ dash_ret.price <= 0) => DashNoSignal(dash_ret)


-----------------------------------------------------------------------------
(* Claims about fetch_option_chain and the NSE session *)

\* How often the option-chain URL was requested by the latest call.
OcRequests ==
    Cardinality({i \in 1..Len(oc_log.calls) : oc_log.calls[i] = OcUrl(oc_log.symbol)})

\* C12: fetch_option_chain requests the option-chain URL at most twice per
\* call; after a non-200 first response it refreshes the session exactly once
\* and retries exactly once, otherwise it does neither; it returns the
\* payload of the first 200 response, None after a second non-200 response,
\* and never raises, whatever the session or the refresh does.
C12_OneRefreshOneRetry ==
    oc_log.returned =>
        LET url == OcUrl(oc_log.symbol)
        IN  /\ ~oc_log.exc
            /\ OcRequests <= 2
            /\ oc_log.first.kind = "non200" => oc_log.calls = <<url, "home", url>>
            /\ oc_log.first.kind # "non200" => oc_log.calls = <<url>>
            /\ oc_log.first.kind = "ok" => oc_log.ret = oc_log.first.payload
            /\ (oc_log.first.kind = "non200" /\ oc_log.second.kind = "ok") =>
                  oc_log.ret = oc_log.second.payload
            /\ (oc_log.first.kind = "non200" /\ oc_log.second.kind = "non200") =>
                  oc_log.ret = OcNone
            /\ (oc_log.first.kind \in {"raise", "badbody"}
                \/ oc_log.second.kind \in {"raise", "badbody"}) =>
                  oc_log.ret = OcNone

\* A call whose first response is not 200, whose session refresh raises and
\* whose retry is answered 200: the retry's payload is returned.
C12_Witness ==
    /\ oc_log.returned
    /\ oc_log.first.kind = "non200"
    /\ oc_log.home = "raise"
    /\ oc_log.second.kind = "ok"
    /\ oc_log.calls = <<"option-chain-indices", "home", "option-chain-indices">>
    /\ oc_log.ret = oc_log.second.payload
    /\ oc_log.ret.kind = "chain"

\* C13: the session is initialised lazily: the exchange home page is fetched
\* only in response to a failed response, not at import and not
\* unconditionally at the start of a call.
C13_RefreshOnlyAfterFailure ==
    nse_session \subseteq {"failure"}


-----------------------------------------------------------------------------
(* Claims about concurrent requests *)

\* A request is in the middle of its assignments to a cached entry.
MidUpdate(t) == t.pc = "write" /\ t.w > 1

\* price, change, change_pct of the entry e come from one quote (or are
\* still those of the entry as it was found), and for a BUY or SELL entry
\* the levels are those of that price.
FromOneUpdate(e, found) ==
    LET shown == [ price |-> e.price, change |-> e.change,
                   change_pct |-> e.change_pct ]
        FromQuote(q) == [ price |-> q.price, change |-> q.change,
                          change_pct |-> q.change_pct ]
    IN  /\ \/ shown = FromQuote(found)
           \/ \E q \in ThreadQuotes : Priced(q) /\ shown = FromQuote(q)
        /\ e.recommendation \in (BuyTiers \cup SellTiers) =>
              LevelTriple(e.trading_levels)
                = LevelTriple(ProcessLevels(e.price, e.recommendation))

\* C14: under any interleaving of a get_screener_data and a
\* get_stock_details request the cache is written by at most one request at
\* a time, and every cached entry (once no request is in the middle of
\* updating it) and every returned entry has price, change, change_pct and
\* trading_levels from one and the same update.
C14_OneWriterNoTornEntry ==
    /\ ~(MidUpdate(thr_scr) /\ MidUpdate(thr_det))
    /\ \A i \in 1..Len(_cache) :
          (/\ ~(thr_scr.pc = "write" /\ thr_scr.k = i)
           /\ ~(thr_det.pc = "write" /\ thr_det.k = i)
           /\ thr_base # <<>>) =>
              FromOneUpdate(_cache[i], thr_base[i])
    /\ thr_ret.returned =>
          \E i \in 1..Len(thr_base) : FromOneUpdate(thr_ret.stock, thr_base[i])


-----------------------------------------------------------------------------
(* Claims about the parallel round of fetch_last_close_data *)

\* The symbols that have an entry in stocks_data.
Contributed == { stocks_data[i].symbol : i \in 1..Len(stocks_data) }

\* C15: the bulk fetch of fetch_last_close_data always terminates - a
\* per-symbol fetch that fails or never returns does not keep the call from
\* completing with the results of the other symbols - and each requested
\* symbol contributes at most one entry.
C15_BatchTerminates ==
    /\ (batch_pc = "collect") ~> (batch_pc = "done")
    /\ [](Cardinality(Contributed) = Len(stocks_data)
          /\ Contributed \subseteq BatchSymbols)


-----------------------------------------------------------------------------
(* Claims about the price push *)

\* C16: each broadcast pushes the message to every subscriber that is
\* registered for the whole duration of the broadcast, removes exactly the
\* subscribers whose send failed and keeps all others registered, also when
\* connect or disconnect runs while broadcast is suspended inside a send.
C16_BroadcastReachesAll ==
    /\ [](pb_last = "sent" => bc_log.stayed \subseteq bc_log.tried)
    /\ [][pb_pc = "send" /\ pb_pc' = "sleep"
            => { active_connections'[i] : i \in 1..Len(active_connections') }
                   = Registered \ bc_log'.failed]_vars


\* C17: the periodic price push never stops on an error.  Whatever
\* exception the fetch or a send of one tick raises, price_broadcaster is
\* not left: it sleeps and performs the next tick; and in websocket_prices
\* a fetch that failed (for some or all symbols) goes on to the send of
\* that tick, with the client still registered.
C17_PushSurvivesErrors ==
    /\ [](pb_pc # "stopped")
    /\ [](pb_last \in {"raise", "sent"} => pb_pc \in {"sleep", "fetch"})
    /\ (pb_pc = "sleep") ~> (pb_pc = "fetch")
    /\ [][\A c \in Clients :
            ws_pc[c] = "fetch" /\ ws_pc'[c] # "fetch"
                => /\ ws_pc'[c] = "send"
                   /\ active_connections' = active_connections]_vars

\* price_broadcaster is about to fetch again after a tick that raised, and
\* a client whose latest fetch failed for a symbol was sent its message and
\* is still registered.
C17_Witness ==
    /\ pb_pc = "fetch"
    /\ pb_last = "raise"
    /\ \E c \in Clients :
         /\ ws_pc[c] = "sleep"
         /\ ws_msg[c] # all_symbols
         /\ c \in Registered


-----------------------------------------------------------------------------
(* Claims about algorithms.py and MarketDataProvider *)

\* The multiple of step nearest to the spot price (1/100 rupee); of two
\* equally near ones the even multiple.
Nearest(strike, spot, step) ==
    /\ strike % step = 0
    /\ 2 * Abs(100 * strike - spot) <= 100 * step
    /\ 2 * Abs(100 * strike - spot) = 100 * step => (strike \div step) % 2 = 0

\* C18: for every spot price and every positive step get_relevant_strikes
\* returns exactly 11 values, strictly increasing, consecutive ones step
\* apart, each a multiple of step, the 6th being round(spot/step)*step.
C18_ElevenStrikes ==
    alg_ret.op = "get_relevant_strikes" =>
        /\ Len(alg_ret.strikes) = 11
        /\ \A k \in 1..10 :
             /\ alg_ret.strikes[k] < alg_ret.strikes[k + 1]
             /\ alg_ret.strikes[k + 1] - alg_ret.strikes[k] = alg_ret.step
        /\ \A k \in 1..11 : alg_ret.strikes[k] % alg_ret.step = 0
        /\ Nearest(alg_ret.strikes[6], alg_ret.spot, alg_ret.step)

\* A spot price half way between two multiples of the step was asked.
C18_Witness ==
    /\ alg_ret.op = "get_relevant_strikes"
    /\ alg_ret.spot = 2537500
    /\ alg_ret.step = 50
    /\ alg_ret.strikes[6] = 25400
    /\ alg_ret.strikes[1] = 25150


\* C19: for every symbol of the strike-step table and every spot price,
\* after any earlier calls, get_oi_details returns exactly 11 strike rows in
\* ascending strike order, atm_strike is round(spot/step)*step for the
\* step of the symbol, exactly one row has is_atm and it is the row whose
\* strike is atm_strike, and every bar colour is GREEN, RED or GREY
\* (NIFTY at 25362: ATM 25350, strikes 25100 to 25600).
C19_OiDetailsRows ==
    alg_ret.op = "get_oi_details" =>
        /\ Len(alg_ret.rows) = 11
        /\ \A k \in 1..10 : alg_ret.rows[k].strike < alg_ret.rows[k + 1].strike
        /\ alg_ret.step = STRIKE_STEPS[alg_ret.symbol]
        /\ Nearest(alg_ret.atm_strike, alg_ret.spot, alg_ret.step)
        /\ Cardinality({ k \in 1..11 : alg_ret.rows[k].is_atm }) = 1
        /\ \A k \in 1..11 :
             /\ alg_ret.rows[k].is_atm
                    <=> alg_ret.rows[k].strike = alg_ret.atm_strike
             /\ alg_ret.rows[k].ce_bar_color \in {"GREEN", "RED", "GREY"}
             /\ alg_ret.rows[k].pe_bar_color \in {"GREEN", "RED", "GREY"}
        /\ alg_ret.symbol = "NIFTY" /\ alg_ret.spot = 2536200
               => /\ alg_ret.atm_strike = 25350
                  /\ [k \in 1..11 |-> alg_ret.rows[k].strike]
                         = [k \in 1..11 |-> 25100 + 50 * (k - 1)]

\* get_oi_details("NIFTY", 25362) was answered after get_dashboard_data
\* had drawn another scenario and moved a price.
C19_Witness ==
    /\ alg_ret.op = "get_oi_details"
    /\ alg_ret.symbol = "NIFTY"
    /\ alg_ret.spot = 2536200
    /\ _scenario = "VOLATILE"
    /\ moves > 0
    /\ \E k \in 1..11 : alg_ret.rows[k].ce_bar_color = "GREY"

\* The label the decision table gives.
TableLabel(call, put) ==
    CASE call < 0 /\ put > 0 -> "SHORT COVERING"
      [] call > 0 /\ put < 0 -> "LONG UNWINDING"
      [] call > 0 /\ put > 0 /\ put > call -> "MILD BULLISH"
      [] call > 0 /\ put > 0 /\ put <= call -> "MILD BEARISH"
      [] call < 0 /\ put < 0 -> "UNCERTAIN"
      [] call = 0 \/ put = 0 -> "NEUTRAL"

\* C20: calculate_oi_signal is total over all pairs of signed integers and
\* returns the label of the first matching row of the decision table:
\* call<0 and put>0 SHORT COVERING whatever the magnitudes, call>0 and
\* put<0 LONG UNWINDING, both >0 MILD BULLISH when put>call and MILD BEARISH
\* when put<=call, both <0 UNCERTAIN, any zero NEUTRAL.
C20_DecisionTable ==
    alg_ret.op \in {"calculate_oi_signal", "get_dashboard_data"} =>
        /\ alg_ret.signal.status = TableLabel(alg_ret.call, alg_ret.put)
        /\ alg_ret.signal.message # ""
        /\ alg_ret.signal.color # ""

\* A call change of -1 against a put change of +150000 was classified.
C20_Witness ==
    /\ alg_ret.op = "calculate_oi_signal"
    /\ alg_ret.call = 0 - 1
    /\ alg_ret.put = 150000
    /\ alg_ret.signal.status = "SHORT COVERING"


-----------------------------------------------------------------------------
(* Claims about calculate_sentiment_score *)

\* C21: with the OI-shift status held fixed, the score is within [0,10],
\* never decreases when the PCR increases (spot and VWAP fixed) and never
\* decreases when spot - VWAP increases (PCR fixed).
C21_ScoreMonotone ==
    alg_ret.op = "calculate_sentiment_score" =>
        /\ alg_ret.sentiment.score \in 0..10
        /\ \A pcr \in PcrValues :
             pcr >= alg_ret.pcr =>
                 calculate_sentiment_score(pcr, alg_ret.spot, alg_ret.vwap,
                                           alg_ret.oi_status).score
                     >= alg_ret.sentiment.score
        /\ \A spot_price \in SpotPrices, vwap \in VwapValues :
             spot_price - vwap >= alg_ret.spot - alg_ret.vwap =>
                 calculate_sentiment_score(alg_ret.pcr, spot_price, vwap,
                                           alg_ret.oi_status).score
                     >= alg_ret.sentiment.score

\* A score strictly inside the scale was returned for a PCR below the lower
\* threshold and a spot below the VWAP, so that both can still raise it.
C21_Witness ==
    /\ alg_ret.op = "calculate_sentiment_score"
    /\ alg_ret.pcr = 69
    /\ alg_ret.spot = 2536200
    /\ alg_ret.vwap = 2536300
    /\ alg_ret.oi_status = "NEUTRAL"
    /\ alg_ret.sentiment.score = 1

\* The three contributions and the label as the claim gives them.
ClaimedPoints(pcr, spot_price, vwap, oi_status) ==
    (IF pcr > 120 THEN 2 ELSE IF pcr < 70 THEN 0 - 2 ELSE 0)
    + (IF spot_price > vwap THEN 2 ELSE IF spot_price < vwap THEN 0 - 2 ELSE 0)
    + (CASE oi_status = "SHORT COVERING" -> 3
         [] oi_status = "LONG UNWINDING" -> 0 - 3
         [] oi_status = "MILD BULLISH" -> 1
         [] oi_status = "MILD BEARISH" -> 0 - 1
         [] OTHER -> 0)

ClaimedLabel(score) ==
    IF score >= 7 THEN "STRONG BUY"
    ELSE IF score <= 3 THEN "STRONG SELL" ELSE "NEUTRAL"

\* C22: calculate_sentiment_score returns the clamp to [0,10] of 5 plus
\* +2 exactly when PCR > 1.2 and -2 exactly when PCR < 0.7, +2 exactly when
\* spot is above VWAP and -2 exactly when spot is below VWAP, +3/-3 for
\* SHORT COVERING/LONG UNWINDING and +1/-1 for MILD BULLISH/MILD BEARISH;
\* the label is STRONG BUY iff score >= 7, STRONG SELL iff score <= 3,
\* otherwise NEUTRAL.
C22_ScoreFormula ==
    alg_ret.op = "calculate_sentiment_score" =>
        LET raw == 5 + ClaimedPoints(alg_ret.pcr, alg_ret.spot, alg_ret.vwap,
                                     alg_ret.oi_status)
            clamped == IF raw > 10 THEN 10 ELSE IF raw < 0 THEN 0 ELSE raw
        IN  /\ alg_ret.sentiment.score = clamped
            /\ alg_ret.sentiment.label = ClaimedLabel(alg_ret.sentiment.score)


-----------------------------------------------------------------------------
(* Claims about the trading levels and the filters of the live screener *)

\* The levels the tier gives for a price, risk_reward from those same
\* levels, in tenths.
TierLevels(price, recommendation) ==
    IF recommendation \in BuyTiers
    THEN LET entry == Round2(price * 199, 200)
             target == Round2(price * 103, 100)
             stoploss == Round2(price * 197, 200)
         IN  Levels(entry, target, stoploss,
                    RoundDiv((target - entry) * 10, entry - stoploss))
    ELSE IF recommendation \in SellTiers
    THEN LET entry == Round2(price * 201, 200)
             target == Round2(price * 97, 100)
             stoploss == Round2(price * 203, 200)
         IN  Levels(entry, target, stoploss,
                    RoundDiv((entry - target) * 10, stoploss - entry))
    ELSE Levels(price, price, price, NA)

\* C23: the trading levels follow the tier - BUY tiers entry = price*0.995,
\* target = price*1.03, stoploss = price*0.985; SELL tiers entry =
\* price*1.005, target = price*0.97, stoploss = price*1.015; HOLD all three
\* the price with risk_reward "N/A" - and for BUY and SELL tiers risk_reward
\* is reward/risk of those same levels rounded to one decimal, in
\* _process_stock as well as after the price refresh in get_screener_data
\* and get_stock_details.
C23_LevelsFollowTier ==
    /\ (scr_pc = "done" /\ scr_log.tier # "MOCK") =>
          \A i \in 1..Len(scr_ret.stocks) :
              scr_ret.stocks[i].trading_levels
                  = TierLevels(scr_ret.stocks[i].price,
                               scr_ret.stocks[i].recommendation)
    /\ (det_pc = "done" /\ det_ret.stock.ok) =>
          det_ret.stock.trading_levels
              = TierLevels(det_ret.stock.price, det_ret.stock.recommendation)


\* C24: the filtered result keeps the meaning of the filter on the values
\* returned: top_gainers at most 20 entries, each with change_pct > 0, in
\* descending order of change_pct; top_losers at most 20, each with
\* change_pct < 0, ascending; buy and sell exactly the entries of the full
\* set with a BUY/STRONG BUY resp. SELL/STRONG SELL recommendation.
C24_FilterMeaningKept ==
    scr_pc = "done" =>
        LET out == scr_ret.stocks
            n == Len(out)
            OfTiers(tiers) ==
                SelectSeq(all_stocks, LAMBDA s : s.recommendation \in tiers)
        IN  /\ scr_ret.filter = "top_gainers" =>
                  /\ n <= 20
                  /\ \A i \in 1..n : out[i].change_pct > 0
                  /\ \A i \in 1..(n - 1) : out[i].change_pct >= out[i + 1].change_pct
            /\ scr_ret.filter = "top_losers" =>
                  /\ n <= 20
                  /\ \A i \in 1..n : out[i].change_pct < 0
                  /\ \A i \in 1..(n - 1) : out[i].change_pct <= out[i + 1].change_pct
            /\ scr_ret.filter = "buy" => out = OfTiers(BuyTiers)
            /\ scr_ret.filter = "sell" => out = OfTiers(SellTiers)


-----------------------------------------------------------------------------
(* Claims about the signal derivation of the screener *)

\* C25: two calls of _process_stock with identical stock_data yield identical
\* entries (indicators, score, recommendation, trading_levels).
C25_ProcessStockPure ==
    sig_ret.op = "_process_stock" => sig_ret.first = sig_ret.second


-----------------------------------------------------------------------------
(* Claims about calculate_rsi *)

\* The gain and the loss of move i of a price list: from price i to i + 1.
GainAt(prices, i) ==
    IF prices[i + 1] > prices[i] THEN prices[i + 1] - prices[i] ELSE 0

LossAt(prices, i) ==
    IF prices[i + 1] < prices[i] THEN prices[i] - prices[i + 1] ELSE 0

\* The sum of f over the trailing `period` moves of a list of at least
\* period + 1 prices.
RECURSIVE TrailingSum(_, _, _)
TrailingSum(f, prices, period) ==
    IF period = 0 THEN 0
    ELSE f[Len(prices) - period] + TrailingSum(f, prices, period - 1)

TrailingGain(prices, period) ==
    TrailingSum([i \in 1..(Len(prices) - 1) |-> GainAt(prices, i)], prices, period)

TrailingLoss(prices, period) ==
    TrailingSum([i \in 1..(Len(prices) - 1) |-> LossAt(prices, i)], prices, period)

-----------------------------------------------------------------------------
(* Claims about calculate_fibonacci_levels *)

\* The zone the claim assigns: the first whose lower threshold the price
\* reaches.
ZoneOf(price, f) ==
    IF price >= f.fib_236 THEN "ABOVE_236"
    ELSE IF price >= f.fib_382 THEN "236_TO_382"
    ELSE IF price >= f.fib_500 THEN "382_TO_500"
    ELSE IF price >= f.fib_618 THEN "500_TO_618"
    ELSE IF price >= f.fib_786 THEN "618_TO_786"
    ELSE "BELOW_786"

\* level, in mills, is high minus permille/1000 of the range, to the cent.
PlacedAt(level, high, low, permille) ==
    /\ 1000 * level - (1000 * high - permille * (high - low)) <= 5000
    /\ (1000 * high - permille * (high - low)) - 1000 * level <= 5000

\* C27: for swing_low <= swing_high the five levels lie at swing_high minus
\* 23.6/38.2/50/61.8/78.6 % of the range (to the cent), the zone is the first
\* whose lower threshold the price reaches, the two upper zones are BULLISH,
\* the two middle NEUTRAL, the two lower BEARISH, and price == swing_high
\* gives ABOVE_236 and BULLISH.
C27_FibonacciZones ==
    sig_ret.op = "calculate_fibonacci_levels" /\ sig_ret.low_52 <= sig_ret.high_52 =>
        LET f == sig_ret.ret
            high == sig_ret.high_52
            low == sig_ret.low_52
        IN  /\ PlacedAt(f.fib_236, high, low, 236)
            /\ PlacedAt(f.fib_382, high, low, 382)
            /\ PlacedAt(f.fib_500, high, low, 500)
            /\ PlacedAt(f.fib_618, high, low, 618)
            /\ PlacedAt(f.fib_786, high, low, 786)
            /\ f.zone = ZoneOf(sig_ret.price, f)
            /\ f.signal = (IF f.zone \in {"ABOVE_236", "236_TO_382"} THEN "BULLISH"
                           ELSE IF f.zone \in {"382_TO_500", "500_TO_618"}
                           THEN "NEUTRAL" ELSE "BEARISH")
            /\ sig_ret.price = high => f.zone = "ABOVE_236" /\ f.signal = "BULLISH"


-----------------------------------------------------------------------------
(* Claims about the 52-week range of a screener entry *)

\* C28: when the upstream row carries no 52-week high or low, the entry built
\* by the adapter followed by _process_stock has price * 1.2 and price * 0.8
\* as its Fibonacci range, never 0.
C28_MissingRangeDefaults ==
    sig_ret.op = "adapter" /\ ~sig_ret.item.has_year /\ sig_ret.ret.ok =>
        /\ sig_ret.ret.swing_high = (sig_ret.item.lastPrice * 12) \div 10
        /\ sig_ret.ret.swing_low = (sig_ret.item.lastPrice * 8) \div 10
        /\ sig_ret.ret.swing_high # 0
        /\ sig_ret.ret.swing_low # 0


-----------------------------------------------------------------------------
(* Claims about the market status *)

\* C29: the market is reported OPEN exactly when the time is within
\* 09:15-15:30, bounds included, on a weekday or on 1 February of any year,
\* and both checks give this answer for every date and time.
C29_MarketStatusAgrees ==
    sig_ret.op = "market_status" =>
        LET t == sig_ret.t
            claimed == /\ 33300 <= t.seconds /\ t.seconds <= 55800
                       /\ (t.weekday <= 4 \/ (t.month = 2 /\ t.day = 1))
        IN  /\ sig_ret.live = claimed
            /\ sig_ret.provider = claimed


-----------------------------------------------------------------------------
(* Claims about the sentiment of a dashboard snapshot *)

\* The label that goes with a score.
LabelOf(score) ==
    IF score >= 7 THEN "STRONG BUY"
    ELSE IF score <= 3 THEN "STRONG SELL"
    ELSE "NEUTRAL"

\* C30: in every snapshot of get_live_dashboard_data and of
\* MarketDataProvider.get_dashboard_data the sentiment score lies in 0..10
\* and the label is STRONG BUY iff score >= 7, STRONG SELL iff score <= 3,
\* NEUTRAL otherwise.
C30_SentimentConsistent ==
    /\ dash_pc = "done" =>
         /\ dash_ret.score \in 0..10
         /\ dash_ret.label = LabelOf(dash_ret.score)
    /\ alg_ret.op = "get_dashboard_data" =>
         /\ alg_ret.sentiment.score \in 0..10
         /\ alg_ret.sentiment.label = LabelOf(alg_ret.sentiment.score)

\* A live snapshot on the synthetic-VWAP path: the option chain gave no
\* VWAP, the price is falling, the score is 3 under STRONG SELL.
C30_Witness ==
    /\ dash_pc = "done"
    /\ dash_ret.price > 0
    /\ dash_ret.price_change < 0
    /\ dash_ret.oi_message = "Trend Following"
    /\ dash_ret.score = 3
    /\ dash_ret.label = "STRONG SELL"

=============================================================================
